---------------------------- MODULE Spec2Model ----------------------------
(***************************************************************************)
(* A model of avrokit: the asynchronous staging classes, the block-level   *)
(* tools over Avro Object Container Files (repair, count, concat), the     *)
(* partitioner and the external-merge sorter.  Every subsystem has its own *)
(* specification (SpecWriter, SpecReader, ...) over its own variables; the  *)
(* variables of the other subsystems stay at their idle values.            *)
(***************************************************************************)
EXTENDS Integers, Sequences, FiniteSets, TLC

VARIABLES
    \* ---- asyncio/writer.py: DeferredAvroWriter
    w_main,       \* position of the client thread: "new", "started", "joining", "stopped"
    w_worker,     \* position of _writer_worker: "idle", "while_done", "while_queue", "get", "exit"
    w_queue,      \* self._writer_queue
    w_done,       \* self._writer_thread_done
    w_enq,        \* history: every datum whose append() has returned, in order
    w_passed,     \* history: every datum passed to self.writer.append, in order
    w_written,    \* the data the wrapped writer accepted, in order
    \* ---- asyncio/reader.py: BlockingQueueAvroReader
    r_data,       \* self.data: the source, [items, raises]
    r_idx,        \* number of items the worker's for loop has taken from the source
    r_worker,     \* position of _reader_worker: "idle", "for", "finally", "exit"
    r_queue,      \* self._reader_queue
    r_done,       \* self._reader_thread_done
    r_cons,       \* position of the consumer thread: "new", "run", "empty_done", "joining", "stopped"
    r_ret,        \* the value the last call of empty() returned: "none", "True", "False"
    r_retq,       \* the length of the queue at the moment that call returned
    r_got,        \* the data the consumer took from the queue, in order
    \* ---- tools/repair.py: RepairTool.repair on one input
    rp_pc,        \* position in repair: "start", "loop", "scanned", "done", "error"
    rp_shape,     \* the records per block of the file as it was written
    rp_damage,    \* what happened to the file afterwards: [kind, at, val]
    rp_in,        \* the input file as repair finds it
    rp_pos,       \* f.tell(), as an offset after the header
    rp_out,       \* the records appended to the output writer, in order
    rp_blocks,    \* count_blocks
    rp_corrupt,   \* count_corrupt_blocks
    rp_report,    \* the RepairToolReport: <<count_blocks, count_corrupt_blocks>>, or <<>>
    rp_dry_run,   \* the dry_run argument
    rp_user,      \* the file at the output URL the caller gave: [exists, recs]
    rp_touched,   \* history: what this call did to the caller's output URL
    rp_tmp,       \* the temporary file of a dry run: [exists, recs]
    rp_url,       \* the output_url field of the report, or "" before the report
    rp_first,     \* history: the report and output_url field of the call before, or <<>>
    rp_runs,      \* history: the calls of repair started on this input
    \* ---- tools/count.py: CountTool.fast_count_records on one reader
    fc_pc,        \* position: "start", "loop", "done", "error"
    fc_shape,     \* the records per block of the file as it was written
    fc_damage,    \* a truncation of the file, or none
    fc_in,        \* the file the reader is open on
    fc_pos,       \* reader.reader.tell(), as an offset after the header
    fc_total,     \* total
    \* ---- tools/concat.py: ConcatTool.block_concat
    bc_pc,        \* position: "open", "blocks", "done", "error"
    bc_inputs,    \* the input files, in the order of input_urls
    bc_i,         \* index of the current input
    bc_pos,       \* in_f.tell(), as an offset after the header
    bc_out,       \* the output file: [codec, sync, hlen, body]
    bc_sync,      \* output_sync_marker (<<>> stands for None)
    \* ---- tools/filesort.py: FileSortTool.filesort
    fs_pc,        \* position: "read", "spill_rest", "merge_open", "merge", "done"
    fs_input,     \* the records of the input file, in order
    fs_batch_size,\* batch_size
    fs_reverse,   \* reverse
    fs_next,      \* number of input records read so far
    fs_batch,     \* batch
    fs_spills,    \* the spill files: fs_spills[k + 1] holds the records of batch_k.avro
    fs_iters,     \* sorted_iterators: the unread records of each spill file, in listing order
    fs_order,     \* the batch ids in the order os.listdir returned them
    fs_out,       \* the records appended to the output writer, in order
    \* ---- io/writer.py: a PartitionedAvroWriter driven by a client
    pw_dest,      \* the files of the destination: file name -> records appended
    pw_current,   \* current_writer: the name of its file, or None
    pw_streams,   \* the names of the files whose stream is open
    pw_peak,      \* history: the most streams that were ever open at one instant
    pw_flushed,   \* the number of records of the current file flushed to its stream
    pw_raised,    \* the last call raised ValueError
    pw_ops,       \* the number of calls made so far
    pw_initial,   \* history: the destination when the writer was constructed
    pw_created,   \* history: the names of the files the writer opened, in order
    \* ---- io/writer.py: PartitionedAvroWriter.next_filename called on a name
    nf_pc,        \* position: "idle", "call", "returned"
    nf_previous,  \* previous: a string (a sequence of characters) or None
    nf_none,      \* history: the caller passed None, not a string
    nf_index,     \* history: the index previous was built from, or -1
    nf_result,    \* what the call did: [raised, name]
    nf_calls,     \* the number of calls made so far
    \* ---- io/schema.py: validate_avro_schema_evolution(schema_a, schema_b)
    se_pc,        \* position: "idle", "call", "returned"
    se_a,         \* schema_a, the original schema
    se_b,         \* schema_b, the evolved schema
    se_result,    \* what the call did: [raised, error, path]
    \* ---- url/utils.py: flatten_urls(urls, expand)
    fu_pc,        \* position: "idle", "call", "returned"
    fu_urls,      \* urls: [kind, items], kind "none", "url" or "list"
    fu_expand,    \* expand
    fu_result,    \* the URL strings of the sequence returned
    \* ---- url/file.py: FileURL.expand() on a local path
    ex_pc,        \* position: "idle", "call", "returned"
    ex_kind,      \* what the URL names: "directory", "pattern", "file" or "missing"
    ex_tree,      \* the directory d: [files, dirs], dirs: name -> files of the subdirectory
    ex_result,    \* the paths of the URLs returned, in order
    \* ---- url/s3.py, url/google.py: an object-store URL opened, written, closed
    os_pc,        \* position: "idle", "new", "open", "closed", "error"
    os_backend,   \* "s3" or "gcs"
    os_mode,      \* the mode of the URL: "rb", "wb" or "ab"
    os_remote,    \* the remote object: [exists, data]
    os_before,    \* history: the remote object when the URL was opened
    os_scratch,   \* the content of the local scratch file
    os_pos,       \* the position of the stream in the scratch file
    os_written,   \* history: the bytes written to the stream, in order
    os_local,     \* the scratch file exists on the local disk
    os_raised,    \* close() raised (the upload failed)
    \* ---- tools/repair.py: scan_to_next_sync_marker called on a stream
    sc_pc,        \* position: "idle", "call", "done"
    sc_bytes,     \* the bytes of the stream
    sc_start,     \* fh.tell() when the function is called
    sc_marker,    \* sync_marker
    sc_chunk,     \* chunk_size
    sc_result,    \* [found, pos]: the return value and fh.tell() afterwards
    \* ---- tools/partition.py: PartitionTool.partition_avro with a PartitionedAvroWriter
    pt_pc,        \* position: "start", "open_writer", "open_input", "records", "done", "error"
    pt_inputs,    \* the files base_input_url expands to, in order
    pt_count,     \* count_partitions
    pt_force,     \* force
    pt_dest,      \* the files of the destination: file name -> records written
    pt_kind,      \* what base_output_url is: "pattern", "directory" or "missing"
    pt_current,   \* writer.current_url: the name of the open output, or None
    pt_i,         \* index of the current input
    pt_reader,    \* the DataFileReader on the current input
    pt_target,    \* size_target
    pt_size_cur,  \* size_cur
    pt_pos_last,  \* pos_last
    pt_opened     \* history: the names the writer opened, in order

wvars == <<w_main, w_worker, w_queue, w_done, w_enq, w_passed, w_written>>
rvars == <<r_data, r_idx, r_worker, r_queue, r_done, r_cons, r_ret, r_retq, r_got>>
fcvars == <<fc_pc, fc_shape, fc_damage, fc_in, fc_pos, fc_total>>
bcvars == <<bc_pc, bc_inputs, bc_i, bc_pos, bc_out, bc_sync>>
ptvars == <<pt_pc, pt_inputs, pt_count, pt_force, pt_dest, pt_kind, pt_current, pt_i,
            pt_reader, pt_target, pt_size_cur, pt_pos_last, pt_opened>>
pwvars == <<pw_dest, pw_current, pw_streams, pw_peak, pw_flushed, pw_raised, pw_ops,
            pw_initial, pw_created>>
nfvars == <<nf_pc, nf_previous, nf_none, nf_index, nf_result, nf_calls>>
sevars == <<se_pc, se_a, se_b, se_result>>
fuvars == <<fu_pc, fu_urls, fu_expand, fu_result>>
exvars == <<ex_pc, ex_kind, ex_tree, ex_result>>
osvars == <<os_pc, os_backend, os_mode, os_remote, os_before, os_scratch, os_pos, os_written,
            os_local, os_raised>>
scvars == <<sc_pc, sc_bytes, sc_start, sc_marker, sc_chunk, sc_result>>
fsvars == <<fs_pc, fs_input, fs_batch_size, fs_reverse, fs_next, fs_batch,
            fs_spills, fs_iters, fs_order, fs_out>>
rpvars == <<rp_pc, rp_shape, rp_damage, rp_in, rp_pos, rp_out, rp_blocks, rp_corrupt, rp_report,
            rp_dry_run, rp_user, rp_touched, rp_tmp, rp_url, rp_first, rp_runs>>

\* What a step of one subsystem leaves alone: the state of all the others.
notWriter == <<rvars, rpvars, fcvars, bcvars, ptvars, fsvars, pwvars, nfvars, sevars, fuvars, exvars, osvars, scvars>>
notReader == <<wvars, rpvars, fcvars, bcvars, ptvars, fsvars, pwvars, nfvars, sevars, fuvars, exvars, osvars, scvars>>
notRepair == <<wvars, rvars, fcvars, bcvars, ptvars, fsvars, pwvars, nfvars, sevars, fuvars, exvars, osvars, scvars>>
notCount == <<wvars, rvars, rpvars, bcvars, ptvars, fsvars, pwvars, nfvars, sevars, fuvars, exvars, osvars, scvars>>
notConcat == <<wvars, rvars, rpvars, fcvars, ptvars, fsvars, pwvars, nfvars, sevars, fuvars, exvars, osvars, scvars>>
notSort == <<wvars, rvars, rpvars, fcvars, bcvars, ptvars, pwvars, nfvars, sevars, fuvars, exvars, osvars, scvars>>
notPWriter == <<wvars, rvars, rpvars, fcvars, bcvars, ptvars, fsvars, nfvars, sevars, fuvars, exvars, osvars, scvars>>
notNaming == <<wvars, rvars, rpvars, fcvars, bcvars, ptvars, fsvars, pwvars, sevars, fuvars, exvars, osvars, scvars>>
notSchema == <<wvars, rvars, rpvars, fcvars, bcvars, ptvars, fsvars, pwvars, nfvars, fuvars, exvars, osvars, scvars>>
notFlatten == <<wvars, rvars, rpvars, fcvars, bcvars, ptvars, fsvars, pwvars, nfvars, sevars, exvars, osvars, scvars>>
notExpand == <<wvars, rvars, rpvars, fcvars, bcvars, ptvars, fsvars, pwvars, nfvars, sevars, fuvars, osvars, scvars>>
notObject == <<wvars, rvars, rpvars, fcvars, bcvars, ptvars, fsvars, pwvars, nfvars, sevars, fuvars, exvars, scvars>>
notScan == <<wvars, rvars, rpvars, fcvars, bcvars, ptvars, fsvars, pwvars, nfvars, sevars, fuvars, exvars, osvars>>
notPartition == <<wvars, rvars, rpvars, fcvars, bcvars, fsvars, pwvars, nfvars, sevars, fuvars, exvars, osvars, scvars>>

(***************************************************************************)
(* Bounds of the model.                                                    *)
(***************************************************************************)
MaxAppends == 3      \* calls of DeferredAvroWriter.append in one run
MaxData == 3         \* items the reader's source yields
MaxBlocks == 3       \* blocks of an input file
MaxBlockRecs == 2    \* records of one block
MaxInputs == 2       \* input files of one run of concat or partition
MaxPartitions == 3   \* count_partitions
MaxRecords == 3      \* records of the file to sort
MaxBatchSize == 2    \* batch_size
MaxKey == 2          \* values of the sort field: 0..MaxKey
MaxWriterOps == 5    \* calls made on a PartitionedAvroWriter
MaxNameDigits == 3   \* digits after part- in the generated names
MaxCalls == 3        \* successive calls of next_filename on its own result
MaxUrls == 3         \* entries of the list given to flatten_urls
MaxWrites == 2       \* bytes written to an object-store stream
MaxRuns == 2         \* calls of repair on one input
MaxDryBlocks == 2    \* blocks of the files repair is called on twice
MaxDryBlockRecs == 1 \* records per block of those files
MaxStream == 5       \* bytes of the stream scan_to_next_sync_marker reads
MaxMarker == 2       \* bytes of its sync marker
MaxChunk == 3        \* its chunk_size
MaxPieces == 3       \* pieces of an arbitrary body after a valid header

\* Data handed to the stages.  0 stands for the falsy data of Python (0, "",
\* {}, [], None): bool(0) is False.
Data == 0..2

\* Python truth value of a datum, as the `if datum:` test computes it.
Truthy(d) == d # 0

\* The data for which the wrapped writer's append raises.
BadData == {2}

(***************************************************************************)
(* DeferredAvroWriter                                                      *)
(***************************************************************************)
IdleWriter ==
    /\ w_main = "new"
    /\ w_worker = "idle"
    /\ w_queue = <<>>
    /\ w_done = FALSE
    /\ w_enq = <<>>
    /\ w_passed = <<>>
    /\ w_written = <<>>

\* start(): self._writer_thread.start()
DW_Start ==
    /\ w_main = "new"
    /\ w_main' = "started"
    /\ w_worker' = "while_done"
    /\ UNCHANGED <<w_queue, w_done, w_enq, w_passed, w_written>>
    /\ UNCHANGED notWriter

\* append(datum): self._writer_queue.put(datum); the queue is unbounded, so
\* put never blocks.  Called before stop().
DW_Append ==
    /\ w_main \in {"new", "started"}
    /\ Len(w_enq) < MaxAppends
    /\ \E d \in Data :
        /\ w_queue' = Append(w_queue, d)
        /\ w_enq' = Append(w_enq, d)
    /\ UNCHANGED <<w_main, w_worker, w_done, w_passed, w_written>>
    /\ UNCHANGED notWriter

\* stop(), first statement: self._writer_thread_done.set()
DW_StopSet ==
    /\ w_main = "started"
    /\ w_done' = TRUE
    /\ w_main' = "joining"
    /\ UNCHANGED <<w_worker, w_queue, w_enq, w_passed, w_written>>
    /\ UNCHANGED notWriter

\* stop(), second statement: self._writer_thread.join() returns once the
\* worker has left its loop.
DW_StopJoin ==
    /\ w_main = "joining"
    /\ w_worker = "exit"
    /\ w_main' = "stopped"
    /\ UNCHANGED <<w_worker, w_queue, w_done, w_enq, w_passed, w_written>>
    /\ UNCHANGED notWriter

\* while condition, left operand: not self._writer_thread_done.is_set()
DW_WhileDone ==
    /\ w_worker = "while_done"
    /\ w_worker' = IF ~w_done THEN "get" ELSE "while_queue"
    /\ UNCHANGED <<w_main, w_queue, w_done, w_enq, w_passed, w_written>>
    /\ UNCHANGED notWriter

\* while condition, right operand: not self._writer_queue.empty()
DW_WhileQueue ==
    /\ w_worker = "while_queue"
    /\ w_worker' = IF w_queue # <<>> THEN "get" ELSE "exit"
    /\ UNCHANGED <<w_main, w_queue, w_done, w_enq, w_passed, w_written>>
    /\ UNCHANGED notWriter

\* The effect of the loop body on one dequeued datum: `if datum:` guards the
\* call of self.writer.append; an exception of the wrapped writer is logged
\* and swallowed.
WorkerPassed(passed, d) == IF Truthy(d) THEN Append(passed, d) ELSE passed

WorkerWritten(written, d) ==
    IF Truthy(d) /\ d \notin BadData THEN Append(written, d) ELSE written

\* Loop body with an item available: get(timeout=1) returns it.
DW_Get ==
    /\ w_worker = "get"
    /\ w_queue # <<>>
    /\ w_queue' = Tail(w_queue)
    /\ w_passed' = WorkerPassed(w_passed, Head(w_queue))
    /\ w_written' = WorkerWritten(w_written, Head(w_queue))
    /\ w_worker' = "while_done"
    /\ UNCHANGED <<w_main, w_done, w_enq>>
    /\ UNCHANGED notWriter

\* Loop body with the queue empty for the whole timeout: queue.Empty, continue.
DW_GetTimeout ==
    /\ w_worker = "get"
    /\ w_queue = <<>>
    /\ w_worker' = "while_done"
    /\ UNCHANGED <<w_main, w_queue, w_done, w_enq, w_passed, w_written>>
    /\ UNCHANGED notWriter

(***************************************************************************)
(* BlockingQueueAvroReader                                                 *)
(***************************************************************************)
RECURSIVE SeqsUpTo(_, _)
\* All sequences over S of length at most n.
SeqsUpTo(S, n) ==
    IF n = 0 THEN {<<>>}
    ELSE LET shorter == SeqsUpTo(S, n - 1)
         IN  shorter \cup {Append(s, x) : s \in {t \in shorter : Len(t) = n - 1}, x \in S}

\* The sources: the items an iterable yields, and whether iterating it raises
\* after the last of them.
Sources == [items : SeqsUpTo(Data, MaxData), raises : BOOLEAN]

IdleReader ==
    /\ r_data = [items |-> <<>>, raises |-> FALSE]
    /\ r_idx = 0
    /\ r_worker = "idle"
    /\ r_queue = <<>>
    /\ r_done = FALSE
    /\ r_cons = "new"
    /\ r_ret = "none"
    /\ r_retq = 0
    /\ r_got = <<>>

\* start(): self._reader_thread.start()
BR_Start ==
    /\ r_cons = "new"
    /\ r_cons' = "run"
    /\ r_worker' = "for"
    /\ UNCHANGED <<r_data, r_idx, r_queue, r_done, r_ret, r_retq, r_got>>
    /\ UNCHANGED notReader

\* for datum in self.data: self._reader_queue.put(datum, block=True)
BR_Put ==
    /\ r_worker = "for"
    /\ r_idx < Len(r_data.items)
    /\ r_queue' = Append(r_queue, r_data.items[r_idx + 1])
    /\ r_idx' = r_idx + 1
    /\ UNCHANGED <<r_data, r_worker, r_done, r_cons, r_ret, r_retq, r_got>>
    /\ UNCHANGED notReader

\* The for loop ends: the source is exhausted, or it raises and the
\* exception is logged.
BR_EndFor ==
    /\ r_worker = "for"
    /\ r_idx = Len(r_data.items)
    /\ r_worker' = "finally"
    /\ UNCHANGED <<r_data, r_idx, r_queue, r_done, r_cons, r_ret, r_retq, r_got>>
    /\ UNCHANGED notReader

\* The event set ahead of the loop instead of in the finally clause.
BR_SetBeforeLoop ==
    /\ \/ r_worker = "for" /\ ~r_done /\ r_worker' = "for"
       \/ r_worker = "finally" /\ r_worker' = "exit"
    /\ r_done' = TRUE
    /\ UNCHANGED <<r_data, r_idx, r_queue, r_cons, r_ret, r_retq, r_got>>
    /\ UNCHANGED notReader

\* finally: self._reader_thread_done.set()
BR_Finally ==
    /\ r_worker = "finally"
    /\ r_done' = TRUE
    /\ r_worker' = "exit"
    /\ UNCHANGED <<r_data, r_idx, r_queue, r_cons, r_ret, r_retq, r_got>>
    /\ UNCHANGED notReader

\* empty(), left operand of `and`: self._reader_queue.empty().  A False
\* result is the result of the call (short circuit).
BR_EmptyQueue ==
    /\ r_cons = "run"
    /\ IF r_queue = <<>>
       THEN /\ r_cons' = "empty_done"
            /\ UNCHANGED <<r_ret, r_retq>>
       ELSE /\ r_ret' = "False"
            /\ r_retq' = Len(r_queue)
            /\ UNCHANGED r_cons
    /\ UNCHANGED <<r_data, r_idx, r_worker, r_queue, r_done, r_got>>
    /\ UNCHANGED notReader

\* empty(), right operand: self._reader_thread_done.is_set(); the call returns.
BR_EmptyDone ==
    /\ r_cons = "empty_done"
    /\ r_ret' = IF r_done THEN "True" ELSE "False"
    /\ r_retq' = Len(r_queue)
    /\ r_cons' = "run"
    /\ UNCHANGED <<r_data, r_idx, r_worker, r_queue, r_done, r_got>>
    /\ UNCHANGED notReader

\* The consumer's reader.queue.get(timeout=...) with an item available.
BR_Get ==
    /\ r_cons = "run"
    /\ r_queue # <<>>
    /\ r_got' = Append(r_got, Head(r_queue))
    /\ r_queue' = Tail(r_queue)
    /\ UNCHANGED <<r_data, r_idx, r_worker, r_done, r_cons, r_ret, r_retq>>
    /\ UNCHANGED notReader

\* stop(), first statement: self._reader_thread_done.set()
BR_StopSet ==
    /\ r_cons = "run"
    /\ r_done' = TRUE
    /\ r_cons' = "joining"
    /\ UNCHANGED <<r_data, r_idx, r_worker, r_queue, r_ret, r_retq, r_got>>
    /\ UNCHANGED notReader

\* stop(), second statement: self._reader_thread.join()
BR_StopJoin ==
    /\ r_cons = "joining"
    /\ r_worker = "exit"
    /\ r_cons' = "stopped"
    /\ UNCHANGED <<r_data, r_idx, r_worker, r_queue, r_done, r_ret, r_retq, r_got>>
    /\ UNCHANGED notReader

(***************************************************************************)
(* Avro Object Container Files, byte by byte                               *)
(*                                                                         *)
(* A file is [codec, sync, hlen, body]: what the header parses to (the     *)
(* avro.codec entry and the 16-byte sync marker), the length of the header *)
(* in bytes, and the bytes after the header.  Stream positions of the      *)
(* model are offsets into body; tell() is hlen plus the offset.  The       *)
(* schema of every file is "int": a record is one zig-zag varint.          *)
(***************************************************************************)
SYNC_SIZE == 16

Min(a, b) == IF a < b THEN a ELSE b

\* bytes[from .. to) with 0-based offsets, cut at the end of the sequence.
Slice(bytes, from, to) == SubSeq(bytes, from + 1, Min(to, Len(bytes)))

RECURSIVE Flatten(_)
\* The concatenation of a sequence of sequences.
Flatten(ss) == IF ss = <<>> THEN <<>> ELSE Head(ss) \o Flatten(Tail(ss))

\* Zig-zag coding of a long, and its inverse (n >> 1) ^ -(n & 1).
ZigZag(n) == IF n >= 0 THEN 2 * n ELSE -2 * n - 1
UnZigZag(u) == IF u % 2 = 0 THEN u \div 2 ELSE -((u + 1) \div 2)

RECURSIVE VarintBytes(_)
\* Unsigned LEB128, least significant group first.
VarintBytes(u) ==
    IF u < 128 THEN <<u>> ELSE <<(u % 128) + 128>> \o VarintBytes(u \div 128)

\* BinaryEncoder.write_long
WriteLong(n) == VarintBytes(ZigZag(n))

RECURSIVE ReadVarintFrom(_, _, _, _)
\* The loop of read_varint: accumulate 7 bits per byte until a byte has no
\* continuation bit; the end of the stream inside the number is an EOFError.
\* mult is 1 << shift.
ReadVarintFrom(bytes, pos, mult, result) ==
    IF pos >= Len(bytes)
    THEN [ok |-> FALSE, val |-> 0, pos |-> Len(bytes)]
    ELSE LET byte == bytes[pos + 1]
             acc  == result + (byte % 128) * mult
         IN  IF byte < 128
             THEN [ok |-> TRUE, val |-> UnZigZag(acc), pos |-> pos + 1]
             ELSE ReadVarintFrom(bytes, pos + 1, mult * 128, acc)

\* read_varint(fh) at offset pos: [ok, val, pos]; ok = FALSE is the EOFError.
ReadVarint(bytes, pos) == ReadVarintFrom(bytes, pos, 1, 0)

\* The sync marker of the k-th writer: 16 bytes, different for different k.
SyncMarker(k) == [i \in 1..SYNC_SIZE |-> 16 * k + i - 1]

\* A raw deflate stream holding data in one stored block: the final-block
\* byte, the length and its complement (little endian), then the data.
DeflateStored(data) ==
    <<1, Len(data) % 256, Len(data) \div 256,
      255 - (Len(data) % 256), 255 - (Len(data) \div 256)>> \o data

\* Its inverse; ok = FALSE when the bytes are no such stream.
InflateStored(bytes) ==
    IF /\ Len(bytes) >= 5
       /\ bytes[1] = 1
       /\ bytes[2] + 256 * bytes[3] = Len(bytes) - 5
       /\ bytes[4] = 255 - bytes[2]
       /\ bytes[5] = 255 - bytes[3]
    THEN [ok |-> TRUE, data |-> SubSeq(bytes, 6, Len(bytes))]
    ELSE [ok |-> FALSE, data |-> <<>>]

Codecs == {"null", "deflate"}

\* The payload of a block under a codec.
Compress(codec, data) == IF codec = "null" THEN data ELSE DeflateStored(data)

\* The binary encoding of a sequence of records of schema "int".
EncodeRecords(recs) == Flatten([i \in 1..Len(recs) |-> WriteLong(recs[i])])

\* One block as DataFileWriter writes it: count, size, payload, sync.
EncodeBlock(codec, recs, sync) ==
    LET payload == Compress(codec, EncodeRecords(recs))
    IN  WriteLong(Len(recs)) \o WriteLong(Len(payload)) \o payload \o sync

\* The length of the header DataFileWriter writes for schema "int": the
\* magic (4), the metadata map {avro.codec, avro.schema} with its block
\* count, length prefixes and terminator, and the sync marker.
HeaderLen(codec) ==
    4 + (1 + (1 + 10) + (1 + (IF codec = "null" THEN 4 ELSE 7))
           + (1 + 11) + (1 + 5) + 1) + SYNC_SIZE

\* The file a DataFileWriter with sync marker k writes when it is given the
\* records of blocks[1], flushed, the records of blocks[2], flushed, ...
MakeFile(codec, k, blocks) ==
    [codec |-> codec,
     sync  |-> SyncMarker(k),
     hlen  |-> HeaderLen(codec),
     body  |-> Flatten([i \in 1..Len(blocks) |->
                          EncodeBlock(codec, blocks[i], SyncMarker(k))])]

\* os.path.getsize of a file.
FileSize(f) == f.hlen + Len(f.body)

RECURSIVE Sum(_)
Sum(ns) == IF ns = <<>> THEN 0 ELSE Head(ns) + Sum(Tail(ns))

\* The blocks of a file whose blocks hold shape[1], shape[2], ... records:
\* the records are numbered first + 1, first + 2, ... through the file.
NumberedBlocks(shape, first) ==
    [i \in 1..Len(shape) |->
        [j \in 1..shape[i] |-> first + Sum(SubSeq(shape, 1, i - 1)) + j]]

(***************************************************************************)
(* The record iterator of avro's DataFileReader, which avro_reader returns *)
(* and the tools iterate.  Its state is [pos, left, buf, bufpos]: the      *)
(* offset of the stream, the records left in the current block, and for    *)
(* the deflate codec the inflated block and the offset in it.              *)
(***************************************************************************)
\* The reader right after its constructor has parsed the header.
ReaderOpen == [pos |-> 0, left |-> 0, buf |-> <<>>, bufpos |-> 0]

\* is_EOF(): tell() == file_length
ReaderEOF(f, pos) == pos = Len(f.body)

\* _skip_sync(): read 16 bytes; unless they are the sync marker, seek back 16.
ReaderSkipSync(f, pos) ==
    LET got == Slice(f.body, pos, pos + SYNC_SIZE)
    IN  IF got = f.sync
        THEN [matched |-> TRUE, pos |-> pos + SYNC_SIZE]
        ELSE [matched |-> FALSE, pos |-> pos + Len(got) - SYNC_SIZE]

\* _read_block_header() at offset pos: the count, then for the null codec
\* the size is skipped and records are decoded from the stream, and for
\* deflate the payload is read whole and inflated.
ReaderBlockHeader(f, pos) ==
    LET count == ReadVarint(f.body, pos)
        size  == ReadVarint(f.body, count.pos)
        data  == Slice(f.body, size.pos, size.pos + size.val)
        infl  == InflateStored(data)
    IN  IF pos < 0 \/ ~count.ok \/ ~size.ok
        THEN [ok |-> FALSE, st |-> ReaderOpen]
        ELSE IF f.codec = "null"
        THEN [ok |-> TRUE,
              st |-> [pos |-> size.pos, left |-> count.val, buf |-> <<>>, bufpos |-> 0]]
        ELSE IF size.val < 0 \/ Len(data) # size.val \/ ~infl.ok
        THEN [ok |-> FALSE, st |-> ReaderOpen]
        ELSE [ok |-> TRUE,
              st |-> [pos |-> size.pos + size.val, left |-> count.val,
                      buf |-> infl.data, bufpos |-> 0]]

RECURSIVE ReaderNext(_, _)
\* __next__(): [kind, rec, st] with kind "rec" (a record was read), "stop"
\* (StopIteration) or "error" (the decoder raised).
ReaderNext(f, st) ==
    IF st.left = 0
    THEN IF ReaderEOF(f, st.pos)
         THEN [kind |-> "stop", rec |-> 0, st |-> st]
         ELSE LET skip == ReaderSkipSync(f, st.pos)
              IN  IF skip.matched /\ ReaderEOF(f, skip.pos)
                  THEN [kind |-> "stop", rec |-> 0, st |-> [st EXCEPT !.pos = skip.pos]]
                  ELSE LET hdr == ReaderBlockHeader(f, skip.pos)
                       IN  IF hdr.ok THEN ReaderNext(f, hdr.st)
                           ELSE [kind |-> "error", rec |-> 0, st |-> st]
    ELSE LET datum == IF f.codec = "null" THEN ReadVarint(f.body, st.pos)
                      ELSE ReadVarint(st.buf, st.bufpos)
         IN  IF ~datum.ok
             THEN [kind |-> "error", rec |-> 0, st |-> st]
             ELSE [kind |-> "rec", rec |-> datum.val,
                   st |-> IF f.codec = "null"
                          THEN [st EXCEPT !.pos = datum.pos, !.left = st.left - 1]
                          ELSE [st EXCEPT !.bufpos = datum.pos, !.left = st.left - 1]]

RECURSIVE DecodeFrom(_, _, _)
DecodeFrom(f, st, acc) ==
    LET nxt == ReaderNext(f, st)
    IN  IF nxt.kind = "rec" THEN DecodeFrom(f, nxt.st, Append(acc, nxt.rec))
        ELSE [ok |-> nxt.kind = "stop", recs |-> acc]

\* list(reader): every record of the file in order; ok = FALSE when the
\* iteration ended with an exception.
DecodeFile(f) == DecodeFrom(f, ReaderOpen, <<>>)

(***************************************************************************)
(* RepairTool                                                              *)
(***************************************************************************)
DEFAULT_CHUNK_SIZE == 8192

\* bytes.find(pat): the lowest 0-based index at which pat occurs, or -1.
Find(buf, pat) ==
    LET hits == {i \in 0..(Len(buf) - Len(pat)) :
                    SubSeq(buf, i + 1, i + Len(pat)) = pat}
    IN  IF hits = {} THEN -1 ELSE CHOOSE i \in hits : \A j \in hits : i <= j

\* Without the tail of the buffer carried over to the next chunk.
LastBytesNone(buf, k) == <<>>

\* The Python slice buffer[-k:]: the last k bytes, the whole buffer when it
\* is shorter, and (since -0 is 0) the whole buffer when k = 0.
LastBytes(buf, k) ==
    IF k = 0 \/ k >= Len(buf) THEN buf ELSE SubSeq(buf, Len(buf) - k + 1, Len(buf))

RECURSIVE ScanLoop(_, _, _, _, _)
\* The loop of scan_to_next_sync_marker with the stream at offset pos and
\* the bytes kept from the chunks before in buffer.
ScanLoop(bytes, pos, buffer, sync_marker, chunk_size) ==
    LET chunk == Slice(bytes, pos, pos + chunk_size)
        tell  == pos + Len(chunk)
        buf   == buffer \o chunk
        idx   == Find(buf, sync_marker)
    IN  IF chunk = <<>>
        THEN [found |-> FALSE, pos |-> pos]
        ELSE IF idx # -1
        THEN [found |-> TRUE, pos |-> tell - Len(buf) + idx + Len(sync_marker)]
        ELSE ScanLoop(bytes, tell, LastBytes(buf, Len(sync_marker) - 1),
                      sync_marker, chunk_size)

\* The scan started over from the first byte after the header.
ScanFromStart(bytes, pos, sync_marker, chunk_size) ==
    ScanLoop(bytes, 0, <<>>, sync_marker, chunk_size)

\* scan_to_next_sync_marker(fh, sync_marker, chunk_size): [found, pos], pos
\* being where it leaves the stream.
ScanToNextSyncMarker(bytes, pos, sync_marker, chunk_size) ==
    ScanLoop(bytes, pos, <<>>, sync_marker, chunk_size)

IdleScan ==
    /\ sc_pc = "idle"
    /\ sc_bytes = <<>>
    /\ sc_start = 0
    /\ sc_marker = <<0>>
    /\ sc_chunk = 1
    /\ sc_result = [found |-> FALSE, pos |-> 0]

\* One call of scan_to_next_sync_marker.
SC_Scan ==
    /\ sc_pc = "call"
    /\ sc_result' = ScanToNextSyncMarker(sc_bytes, sc_start, sc_marker, sc_chunk)
    /\ sc_pc' = "done"
    /\ UNCHANGED <<sc_bytes, sc_start, sc_marker, sc_chunk>>
    /\ UNCHANGED notScan

RECURSIVE DecodeBlockFrom(_, _, _, _)
DecodeBlockFrom(data, pos, n, acc) ==
    IF n <= 0 THEN [ok |-> TRUE, recs |-> acc]
    ELSE LET datum == ReadVarint(data, pos)
         IN  IF ~datum.ok THEN [ok |-> FALSE, recs |-> acc]
             ELSE DecodeBlockFrom(data, datum.pos, n - 1, Append(acc, datum.val))

\* The inner loop `for _ in range(block_count)` over block_data: the records
\* decoded and appended before the first decoding error, and whether there
\* was none.
DecodeBlock(block_data, block_count) == DecodeBlockFrom(block_data, 0, block_count, <<>>)

\* One iteration of the `while True` loop with the stream at offset pos:
\* where it leaves the stream, the records it appends to the writer, what it
\* adds to count_blocks and count_corrupt_blocks, and whether it breaks.
RepairBlock(f, pos, chunk_size) ==
    LET n           == Len(f.body)
        block_count == ReadVarint(f.body, pos)
        block_size  == ReadVarint(f.body, block_count.pos)
        data_end    == IF block_size.val = -1 THEN n
                       ELSE Min(block_size.pos + block_size.val, n)
        block_data  == Slice(f.body, block_size.pos, data_end)
        sync_check  == Slice(f.body, data_end, data_end + SYNC_SIZE)
        sync_end    == Min(data_end + SYNC_SIZE, n)
        decoded     == DecodeBlock(block_data, block_count.val)
    IN  IF ~block_count.ok \/ ~block_size.ok
        THEN \* except EOFError: break
             [break |-> TRUE, pos |-> n, recs |-> <<>>, blocks |-> 0, corrupt |-> 0]
        ELSE IF block_size.val < -1
        THEN \* f.read(block_size) raises ValueError; except Exception
             LET scan == ScanToNextSyncMarker(f.body, block_size.pos, f.sync, chunk_size)
             IN  [break |-> ~scan.found, pos |-> scan.pos, recs |-> <<>>,
                  blocks |-> 0, corrupt |-> 1]
        ELSE IF sync_check # f.sync
        THEN LET scan == ScanToNextSyncMarker(f.body, sync_end, f.sync, chunk_size)
             IN  [break |-> ~scan.found, pos |-> scan.pos, recs |-> <<>>,
                  blocks |-> 1, corrupt |-> 1]
        ELSE [break |-> FALSE, pos |-> sync_end, recs |-> decoded.recs,
              blocks |-> 1, corrupt |-> IF decoded.ok THEN 0 ELSE 1]

\* The byte values a corruption writes.
CorruptBytes == {0, 1, 3, 88, 255}

\* What can happen to the body of a file of n bytes: nothing, a truncation
\* to `at` bytes, or byte `at` overwritten by val.
Damages(n) ==
    {[kind |-> "none", at |-> 0, val |-> 0]}
    \cup {[kind |-> "truncate", at |-> p, val |-> 0] : p \in 0..(n - 1)}
    \cup {[kind |-> "byte", at |-> p, val |-> v] : p \in 0..(n - 1), v \in CorruptBytes}

Damaged(f, d) ==
    IF d.kind = "truncate" THEN [f EXCEPT !.body = SubSeq(f.body, 1, d.at)]
    ELSE IF d.kind = "byte" THEN [f EXCEPT !.body[d.at + 1] = d.val]
    ELSE f

\* The shapes of the files: the number of records of each block.
Shapes == SeqsUpTo(1..MaxBlockRecs, MaxBlocks)

\* The file repair is given before the damage: written with sync marker 6,
\* records 1, 2, 3, ...
RepairOriginal(codec, shape) == MakeFile(codec, 6, NumberedBlocks(shape, 0))

NoOutput == [exists |-> FALSE, recs |-> <<>>]

\* The files the caller's output URL may name before repair is called.
UserFiles == {NoOutput, [exists |-> TRUE, recs |-> <<9>>]}

\* The output repair opens the writer on: the temporary file when dry_run
\* is set, else the URL of the caller.
OutputTargetUser(dry_run) == "user"

OutputTarget(dry_run) == IF dry_run THEN "tmp" ELSE "user"

\* Opening a file with mode "wb": created when missing, truncated.
OpenedForWrite(file) == [exists |-> TRUE, recs |-> <<>>]

OpenTouches(file) == IF file.exists THEN {"write"} ELSE {"create", "write"}

IdleRepair ==
    /\ rp_pc = "idle"
    /\ rp_shape = <<>>
    /\ rp_damage = [kind |-> "none", at |-> 0, val |-> 0]
    /\ rp_in = MakeFile("null", 6, <<>>)
    /\ rp_pos = 0
    /\ rp_out = <<>>
    /\ rp_blocks = 0
    /\ rp_corrupt = 0
    /\ rp_report = <<>>
    /\ rp_dry_run = FALSE
    /\ rp_user = NoOutput
    /\ rp_touched = {}
    /\ rp_tmp = NoOutput
    /\ rp_url = ""
    /\ rp_first = <<>>
    /\ rp_runs = 0

\* read_header and the opening of the output writer: any codec but "null"
\* raises ValueError.  With dry_run the writer is opened on a new temporary
\* file instead of the caller's URL.
RP_ReadHeader ==
    /\ rp_pc = "start"
    /\ rp_pos' = 0
    /\ IF rp_in.codec # "null"
       THEN /\ rp_pc' = "error"
            /\ UNCHANGED <<rp_user, rp_touched, rp_tmp>>
       ELSE /\ rp_pc' = "loop"
            /\ IF OutputTarget(rp_dry_run) = "tmp"
               THEN /\ rp_tmp' = OpenedForWrite(rp_tmp)
                    /\ UNCHANGED <<rp_user, rp_touched>>
               ELSE /\ rp_user' = OpenedForWrite(rp_user)
                    /\ rp_touched' = rp_touched \cup OpenTouches(rp_user)
                    /\ rp_tmp' = IF rp_dry_run THEN OpenedForWrite(rp_tmp) ELSE rp_tmp
    /\ UNCHANGED <<rp_shape, rp_damage, rp_in, rp_out, rp_blocks, rp_corrupt, rp_report,
                   rp_dry_run, rp_url, rp_first, rp_runs>>
    /\ UNCHANGED notRepair

\* One iteration of the block loop.
RP_Block ==
    /\ rp_pc = "loop"
    /\ LET it == RepairBlock(rp_in, rp_pos, DEFAULT_CHUNK_SIZE)
       IN  /\ rp_pos' = it.pos
           /\ rp_out' = rp_out \o it.recs
           /\ rp_blocks' = rp_blocks + it.blocks
           /\ rp_corrupt' = rp_corrupt + it.corrupt
           /\ rp_pc' = IF it.break THEN "scanned" ELSE "loop"
    /\ UNCHANGED <<rp_shape, rp_damage, rp_in, rp_report,
                   rp_dry_run, rp_user, rp_touched, rp_tmp, rp_url, rp_first, rp_runs>>
    /\ UNCHANGED notRepair

\* The end of the two with blocks: the writer is closed, which flushes the
\* appended records to the file it was opened on, and the input is closed.
RP_CloseWriter ==
    /\ rp_pc = "scanned"
    /\ IF OutputTarget(rp_dry_run) = "tmp"
       THEN /\ rp_tmp' = [exists |-> TRUE, recs |-> rp_out]
            /\ UNCHANGED <<rp_user, rp_touched>>
       ELSE /\ rp_user' = [exists |-> TRUE, recs |-> rp_out]
            /\ rp_touched' = rp_touched \cup {"write"}
            /\ UNCHANGED rp_tmp
    /\ rp_pc' = "closed"
    /\ UNCHANGED <<rp_shape, rp_damage, rp_in, rp_pos, rp_out, rp_blocks, rp_corrupt, rp_report,
                   rp_dry_run, rp_url, rp_first, rp_runs>>
    /\ UNCHANGED notRepair

\* With dry_run the output is deleted; the report is appended and returned.
RP_Report ==
    /\ rp_pc = "closed"
    /\ IF rp_dry_run
       THEN IF OutputTarget(rp_dry_run) = "tmp"
            THEN /\ rp_tmp' = NoOutput
                 /\ UNCHANGED <<rp_user, rp_touched>>
            ELSE /\ rp_user' = NoOutput
                 /\ rp_touched' = rp_touched \cup {"delete"}
                 /\ UNCHANGED rp_tmp
       ELSE UNCHANGED <<rp_user, rp_touched, rp_tmp>>
    /\ rp_report' = <<rp_blocks, rp_corrupt>>
    /\ rp_url' = IF rp_dry_run THEN "(dry run)" ELSE "output"
    /\ rp_pc' = "done"
    /\ UNCHANGED <<rp_shape, rp_damage, rp_in, rp_pos, rp_out, rp_blocks, rp_corrupt,
                   rp_dry_run, rp_first, rp_runs>>
    /\ UNCHANGED notRepair

\* The caller calls repair again on the same input and output URL, with the
\* other value of dry_run.
RP_Again ==
    /\ rp_pc = "done"
    /\ rp_runs < MaxRuns
    /\ rp_runs' = rp_runs + 1
    /\ rp_first' = [report |-> rp_report, url |-> rp_url]
    /\ rp_dry_run' = ~rp_dry_run
    /\ rp_pc' = "start"
    /\ rp_pos' = 0
    /\ rp_out' = <<>>
    /\ rp_blocks' = 0
    /\ rp_corrupt' = 0
    /\ rp_report' = <<>>
    /\ rp_url' = ""
    /\ rp_touched' = {}
    /\ rp_tmp' = NoOutput
    /\ UNCHANGED <<rp_shape, rp_damage, rp_in, rp_user>>
    /\ UNCHANGED notRepair

(***************************************************************************)
(* CountTool.fast_count_records                                            *)
(***************************************************************************)
\* A count of blocks, not of records.
CountAddBlocks(total, block_count) == total + 1

\* total += block_count
CountAdd(total, block_count) == total + block_count

\* One iteration of the `while True` loop with the stream at offset pos.
\* The end of the stream inside a varint is avro's "Read 0 bytes, expected 1
\* bytes" and ends the loop; so does a marker that is not the sync marker,
\* after the block's count has been added.  A seek before the start of the
\* file raises OSError, which is re-raised.
CountBlock(f, pos, total) ==
    LET block_count == ReadVarint(f.body, pos)
        block_size  == ReadVarint(f.body, block_count.pos)
        seek_to     == block_size.pos + block_size.val
        marker      == Slice(f.body, seek_to, seek_to + SYNC_SIZE)
    IN  IF ~block_count.ok \/ ~block_size.ok
        THEN [break |-> TRUE, error |-> FALSE, pos |-> Len(f.body), total |-> total]
        ELSE IF f.hlen + seek_to < 0
        THEN [break |-> TRUE, error |-> TRUE, pos |-> block_size.pos,
              total |-> CountAdd(total, block_count.val)]
        ELSE [break |-> marker # f.sync, error |-> FALSE,
              pos |-> seek_to + Len(marker),
              total |-> CountAdd(total, block_count.val)]

IdleCount ==
    /\ fc_pc = "idle"
    /\ fc_shape = <<>>
    /\ fc_damage = [kind |-> "none", at |-> 0, val |-> 0]
    /\ fc_in = MakeFile("null", 6, <<>>)
    /\ fc_pos = 0
    /\ fc_total = 0

\* reader._read_header(); sync_marker = reader.sync_marker; total = 0
FC_ReadHeader ==
    /\ fc_pc = "start"
    /\ fc_pos' = 0
    /\ fc_total' = 0
    /\ fc_pc' = "loop"
    /\ UNCHANGED <<fc_shape, fc_damage, fc_in>>
    /\ UNCHANGED notCount

FC_Block ==
    /\ fc_pc = "loop"
    /\ LET it == CountBlock(fc_in, fc_pos, fc_total)
       IN  /\ fc_pos' = it.pos
           /\ fc_total' = it.total
           /\ fc_pc' = IF it.error THEN "error" ELSE IF it.break THEN "done" ELSE "loop"
    /\ UNCHANGED <<fc_shape, fc_damage, fc_in>>
    /\ UNCHANGED notCount

(***************************************************************************)
(* ConcatTool                                                              *)
(***************************************************************************)
\* The marker of the input the block came from.
BlockSyncMarkerOfInput(output_sync_marker, input_sync_marker) == input_sync_marker

\* The marker block_concat writes after a copied block: out_f.write(
\* output_sync_marker).
BlockSyncMarker(output_sync_marker, input_sync_marker) == output_sync_marker

\* The body of the try block with the input at offset pos: read count, size,
\* size bytes and 16 bytes through the decoder, whose read raises on a short
\* read; [ok, pos, bytes], bytes being what is written to the output.
ConcatCopyBlock(f, pos, output_sync_marker) ==
    LET block_count == ReadVarint(f.body, pos)
        block_size  == ReadVarint(f.body, block_count.pos)
        data_end    == block_size.pos + block_size.val
        block_data  == Slice(f.body, block_size.pos, data_end)
        input_sync  == Slice(f.body, data_end, data_end + SYNC_SIZE)
    IN  IF \/ ~block_count.ok
           \/ ~block_size.ok
           \/ block_size.val < 0
           \/ Len(block_data) # block_size.val
           \/ Len(input_sync) # SYNC_SIZE
        THEN [ok |-> FALSE, pos |-> pos, bytes |-> <<>>]
        ELSE [ok |-> TRUE, pos |-> data_end + SYNC_SIZE,
              bytes |-> WriteLong(block_count.val) \o WriteLong(block_size.val)
                        \o block_data
                        \o BlockSyncMarker(output_sync_marker, input_sync)]

\* concat(): the records the record-level concatenation appends to its
\* writer, every input read through avro_reader in order.
RecordConcat(inputs) == Flatten([i \in 1..Len(inputs) |-> DecodeFile(inputs[i]).recs])

\* The shapes of the files of a run over several inputs: up to two blocks of
\* one or two records.
InputShapes == {<<>>, <<1>>, <<2>>, <<1, 2>>, <<2, 1>>, <<2, 2>>}

\* The input files of a run: 1 to MaxInputs files of one codec, the k-th
\* written with its own sync marker and holding the records 10k+1, 10k+2, ...
InputLists ==
    UNION {{[k \in 1..Len(shapes) |->
                MakeFile(codec, 5 + k, NumberedBlocks(shapes[k], 10 * k))] :
            shapes \in {ss \in SeqsUpTo(InputShapes, MaxInputs) : ss # <<>>}} :
           codec \in Codecs}

\* Input files of which one has had one byte of its body overwritten: that
\* file alone, or before or after an intact file of one block.
DamagedInputLists ==
    LET intact == MakeFile("null", 8, NumberedBlocks(<<1>>, 30))
        damaged ==
            UNION {{Damaged(MakeFile("null", 6, NumberedBlocks(shape, 10)), d) :
                        d \in {x \in Damages(Len(MakeFile("null", 6,
                                    NumberedBlocks(shape, 10)).body)) : x.kind = "byte"}} :
                   shape \in InputShapes \ {<<>>}}
    IN  UNION {{<<f>>, <<f, intact>>, <<intact, f>>} : f \in damaged}

NoFile == [codec |-> "null", sync |-> <<>>, hlen |-> 0, body |-> <<>>]

IdleConcat ==
    /\ bc_pc = "idle"
    /\ bc_inputs = <<>>
    /\ bc_i = 0
    /\ bc_pos = 0
    /\ bc_out = NoFile
    /\ bc_sync = <<>>

\* The top of the for loop: the input is opened and DataFileReader parses its
\* header; the header of the first input is copied to the output and its
\* sync marker becomes the output's.
BC_OpenInput ==
    /\ bc_pc = "open"
    /\ LET f == bc_inputs[bc_i]
       IN  IF bc_i = 1
           THEN /\ bc_out' = [codec |-> f.codec, sync |-> f.sync,
                              hlen |-> f.hlen, body |-> <<>>]
                /\ bc_sync' = f.sync
           ELSE UNCHANGED <<bc_out, bc_sync>>
    /\ bc_pos' = 0
    /\ bc_pc' = "blocks"
    /\ UNCHANGED <<bc_inputs, bc_i>>
    /\ UNCHANGED notConcat

\* current_pos >= file_size: break, and the for loop goes on.
BC_EndInput ==
    /\ bc_pc = "blocks"
    /\ bc_pos >= Len(bc_inputs[bc_i].body)
    /\ IF bc_i < Len(bc_inputs)
       THEN bc_i' = bc_i + 1 /\ bc_pc' = "open"
       ELSE bc_i' = bc_i /\ bc_pc' = "done"
    /\ UNCHANGED <<bc_inputs, bc_pos, bc_out, bc_sync>>
    /\ UNCHANGED notConcat

\* One block is read and written.
BC_CopyBlock ==
    /\ bc_pc = "blocks"
    /\ bc_pos < Len(bc_inputs[bc_i].body)
    /\ LET it == ConcatCopyBlock(bc_inputs[bc_i], bc_pos, bc_sync)
       IN  /\ bc_pos' = it.pos
           /\ bc_out' = [bc_out EXCEPT !.body = @ \o it.bytes]
           /\ bc_pc' = IF it.ok THEN "blocks" ELSE "error"
    /\ UNCHANGED <<bc_inputs, bc_i, bc_sync>>
    /\ UNCHANGED notConcat

(***************************************************************************)
(* PartitionedAvroWriter and PartitionTool                                 *)
(*                                                                         *)
(* A file name part-<digits>.avro is modelled by its digits, a sequence    *)
(* over 0..9; the destination is a function from file names to the records *)
(* written to each file.                                                   *)
(***************************************************************************)
None == <<>>

RECURSIVE Digits(_)
\* The decimal digits of i >= 0, most significant first.
Digits(i) == IF i < 10 THEN <<i>> ELSE Append(Digits(i \div 10), i % 10)

RECURSIVE ZeroPad(_, _)
\* The format specification 0<width>d.
ZeroPad(ds, width) == IF Len(ds) >= width THEN ds ELSE ZeroPad(<<0>> \o ds, width)

RECURSIVE ParseInt(_)
\* int(match.group(1))
ParseInt(ds) ==
    IF ds = <<>> THEN 0 ELSE 10 * ParseInt(SubSeq(ds, 1, Len(ds) - 1)) + ds[Len(ds)]

\* A successor that does not advance: the previous name again.
NextFilenameSame(previous) ==
    IF previous = None THEN ZeroPad(Digits(0), 5) ELSE previous

\* next_filename(previous): f"part-{i:05d}.avro"
NextFilename(previous) ==
    IF previous = None THEN ZeroPad(Digits(0), 5)
    ELSE ZeroPad(Digits(ParseInt(previous) + 1), 5)

RECURSIVE LexLess(_, _)
\* The order of Python strings on part-<a>.avro and part-<b>.avro: the
\* first differing digit decides, and "." sorts before every digit.
LexLess(a, b) ==
    IF b = <<>> THEN FALSE
    ELSE IF a = <<>> THEN TRUE
    ELSE IF Head(a) # Head(b) THEN Head(a) < Head(b)
    ELSE LexLess(Tail(a), Tail(b))

RECURSIVE SortedNames(_)
\* sorted(names)
SortedNames(names) ==
    IF names = {} THEN <<>>
    ELSE LET least == CHOOSE a \in names : \A b \in names \ {a} : LexLess(a, b)
         IN  <<least>> \o SortedNames(names \ {least})

\* url.expand() on the destination pattern: the files it matches, sorted.
Expand(dest) == SortedNames(DOMAIN dest)

\* find_last_filename(): the last of the sorted base names, or None.
FindLastFilename(dest) ==
    IF Expand(dest) = <<>> THEN None ELSE Expand(dest)[Len(Expand(dest))]

\* _open_writer(): the current writer, if any, is closed; the successor of
\* the last file name is opened for writing, which creates the file.
OpenWriter(dest) ==
    LET name == NextFilename(FindLastFilename(dest))
    IN  [current |-> name,
         dest |-> [n \in (DOMAIN dest) \cup {name} |-> IF n = name THEN <<>> ELSE dest[n]]]

\* append(datum) on the open output.
WriterAppend(dest, current, datum) == [dest EXCEPT ![current] = Append(@, datum)]

\* A PartitionedAvroReader over the destination: the records of the files
\* in the order of expand().
ReadPartitions(dest) ==
    Flatten([k \in 1..Len(Expand(dest)) |-> dest[Expand(dest)[k]]])

\* compute_partition_size
ComputePartitionSize(inputs, count_partitions) ==
    Sum([k \in 1..Len(inputs) |-> FileSize(inputs[k])]) \div count_partitions

\* if size_cur >= size_target: writer.roll()
RollNeeded(size_cur, size_target) == size_cur >= size_target

NoDest == [n \in {} |-> <<>>]

\* The destination before the run: nothing, or one file of an earlier run.
InitialDests == {NoDest, [n \in {ZeroPad(Digits(0), 5)} |-> <<99>>]}

\* What the destination URL names: a glob pattern <dir>/*.avro, the path of
\* an existing directory, or a path at which nothing exists.  The paths
\* have no trailing slash and no part-<digits> in their last segment.
DestKinds == {"pattern", "directory", "missing"}

\* The base name of the destination path itself: not a part-<digits> name.
SelfName == <<10>>

\* base_output_url.expand(): a path at which nothing exists expands to the
\* URL itself, a pattern to its matches, a directory to the files in it.
ExpandDest(kind, dest) == IF kind = "missing" THEN <<SelfName>> ELSE Expand(dest)

\* re.search(r"part-(\d+)", previous) finds an index in the name.
HasPartIndex(name) == \A k \in 1..Len(name) : name[k] \in 0..9

\* base_output_url.delete(): a pattern removes its matches, a directory is
\* removed with all it holds, and removing what does not exist raises
\* FileNotFoundError.
DeleteDest(kind, dest) ==
    CASE kind = "pattern"   -> [ok |-> TRUE,  kind |-> "pattern", dest |-> NoDest]
      [] kind = "directory" -> [ok |-> TRUE,  kind |-> "missing", dest |-> NoDest]
      [] kind = "missing"   -> [ok |-> FALSE, kind |-> kind,      dest |-> dest]

IdlePartition ==
    /\ pt_pc = "idle"
    /\ pt_inputs = <<>>
    /\ pt_count = 1
    /\ pt_force = FALSE
    /\ pt_dest = NoDest
    /\ pt_kind = "pattern"
    /\ pt_current = None
    /\ pt_i = 0
    /\ pt_reader = ReaderOpen
    /\ pt_target = 0
    /\ pt_size_cur = 0
    /\ pt_pos_last = 0
    /\ pt_opened = <<>>

\* The pre-flight check, the schema and the target size.
PT_Preflight ==
    /\ pt_pc = "start"
    /\ LET existing == ExpandDest(pt_kind, pt_dest) # <<>>
           deleted  == DeleteDest(pt_kind, pt_dest)
       IN  IF existing /\ ~pt_force
           THEN /\ pt_pc' = "error"
                /\ UNCHANGED <<pt_dest, pt_kind, pt_target>>
           ELSE IF existing /\ ~deleted.ok
           THEN /\ pt_pc' = "error"
                /\ UNCHANGED <<pt_dest, pt_kind, pt_target>>
           ELSE /\ pt_dest' = IF existing THEN deleted.dest ELSE pt_dest
                /\ pt_kind' = IF existing THEN deleted.kind ELSE pt_kind
                /\ pt_target' = ComputePartitionSize(pt_inputs, pt_count)
                /\ pt_pc' = "open_writer"
    /\ pt_size_cur' = 0
    /\ UNCHANGED <<pt_inputs, pt_count, pt_force, pt_current, pt_i, pt_reader,
                   pt_pos_last, pt_opened>>
    /\ UNCHANGED notPartition

\* with PartitionedAvroWriter(...) as writer: open().  find_last_filename
\* returns the last base name of the expansion, and next_filename raises
\* ValueError for a name without part-<digits>.
PT_OpenWriter ==
    /\ pt_pc = "open_writer"
    /\ LET expanded == ExpandDest(pt_kind, pt_dest)
           last     == IF expanded = <<>> THEN None ELSE expanded[Len(expanded)]
       IN  IF HasPartIndex(last)
           THEN /\ pt_dest' = OpenWriter(pt_dest).dest
                /\ pt_current' = OpenWriter(pt_dest).current
                /\ pt_opened' = Append(pt_opened, OpenWriter(pt_dest).current)
                /\ pt_i' = 1
                /\ pt_pc' = "open_input"
           ELSE /\ pt_pc' = "error"
                /\ UNCHANGED <<pt_dest, pt_current, pt_opened, pt_i>>
    /\ UNCHANGED <<pt_inputs, pt_count, pt_force, pt_kind, pt_reader, pt_target,
                   pt_size_cur, pt_pos_last>>
    /\ UNCHANGED notPartition

\* The top of `for input_url in input_urls`: the next input is opened.
PT_OpenInput ==
    /\ pt_pc = "open_input"
    /\ pt_i <= Len(pt_inputs)
    /\ pt_pos_last' = 0
    /\ pt_reader' = ReaderOpen
    /\ pt_pc' = "records"
    /\ UNCHANGED <<pt_kind, pt_inputs, pt_count, pt_force, pt_dest, pt_current, pt_i,
                   pt_target, pt_size_cur, pt_opened>>
    /\ UNCHANGED notPartition

\* The body of `for record in reader`: the record is appended, the bytes
\* the reader advanced are added to size_cur, and the writer rolls when the
\* target is reached.
PT_Record ==
    /\ pt_pc = "records"
    /\ LET f        == pt_inputs[pt_i]
           nxt      == ReaderNext(f, pt_reader)
           pos_cur  == f.hlen + nxt.st.pos
           size_cur == pt_size_cur + (pos_cur - pt_pos_last)
           written  == WriterAppend(pt_dest, pt_current, nxt.rec)
       IN  /\ nxt.kind = "rec"
           /\ pt_reader' = nxt.st
           /\ pt_pos_last' = pos_cur
           /\ IF RollNeeded(size_cur, pt_target)
              THEN /\ pt_dest' = OpenWriter(written).dest
                   /\ pt_current' = OpenWriter(written).current
                   /\ pt_opened' = Append(pt_opened, OpenWriter(written).current)
                   /\ pt_size_cur' = 0
              ELSE /\ pt_dest' = written
                   /\ pt_size_cur' = size_cur
                   /\ UNCHANGED <<pt_current, pt_opened>>
    /\ UNCHANGED <<pt_kind, pt_pc, pt_inputs, pt_count, pt_force, pt_i, pt_target>>
    /\ UNCHANGED notPartition

\* The reader is exhausted: the input is closed.
PT_EndInput ==
    /\ pt_pc = "records"
    /\ ReaderNext(pt_inputs[pt_i], pt_reader).kind = "stop"
    /\ pt_i' = pt_i + 1
    /\ pt_pc' = "open_input"
    /\ UNCHANGED <<pt_kind, pt_inputs, pt_count, pt_force, pt_dest, pt_current, pt_reader,
                   pt_target, pt_size_cur, pt_pos_last, pt_opened>>
    /\ UNCHANGED notPartition

\* The end of the with statement: writer.close()
PT_Close ==
    /\ pt_pc = "open_input"
    /\ pt_i > Len(pt_inputs)
    /\ pt_current' = None
    /\ pt_pc' = "done"
    /\ UNCHANGED <<pt_kind, pt_inputs, pt_count, pt_force, pt_dest, pt_i, pt_reader,
                   pt_target, pt_size_cur, pt_pos_last, pt_opened>>
    /\ UNCHANGED notPartition

(***************************************************************************)
(* PartitionedAvroWriter under any sequence of open, append, flush, roll   *)
(* and close.  The destination is a directory (or a pattern over it) that  *)
(* may hold files already.                                                 *)
(***************************************************************************)
\* The current stream is left open.
CloseCurrentNot(streams, current) == streams

\* self.current_writer.close(): the data-file writer closes its stream.
CloseCurrent(streams, current) == streams \ {current}

\* The last index that {i:05d} formats with five digits.
LastFiveDigitIndex == 99999

\* The destinations a writer may be constructed on: nothing, partitions of
\* an earlier run (also one that went up to and past the last five-digit
\* index), or a file whose name holds no part-<digits>.
InitialWriterDests ==
    {NoDest,
     [n \in {ZeroPad(Digits(0), 5)} |-> <<99>>],
     [n \in {ZeroPad(Digits(0), 5), ZeroPad(Digits(1), 5)} |-> <<99>>],
     [n \in {ZeroPad(Digits(LastFiveDigitIndex - 1), 5)} |-> <<99>>],
     [n \in {ZeroPad(Digits(LastFiveDigitIndex), 5),
             ZeroPad(Digits(LastFiveDigitIndex + 1), 5)} |-> <<99>>],
     [n \in {SelfName} |-> <<99>>]}

\* _open_writer(): the current writer, if any, is closed; then the
\* successor of the last file name is opened.  next_filename raises
\* ValueError when the last name holds no part-<digits>.
PW_OpenWriter ==
    LET closed == IF pw_current # None THEN CloseCurrent(pw_streams, pw_current)
                  ELSE pw_streams
        last   == FindLastFilename(pw_dest)
        opened == OpenWriter(pw_dest)
    IN  IF HasPartIndex(last)
        THEN /\ pw_dest' = opened.dest
             /\ pw_current' = opened.current
             /\ pw_streams' = closed \cup {opened.current}
             /\ pw_peak' = IF Cardinality(closed \cup {opened.current}) > pw_peak
                           THEN Cardinality(closed \cup {opened.current}) ELSE pw_peak
             /\ pw_flushed' = 0
             /\ pw_raised' = FALSE
             /\ pw_created' = Append(pw_created, opened.current)
        ELSE /\ pw_streams' = closed
             /\ pw_raised' = TRUE
             /\ UNCHANGED <<pw_dest, pw_current, pw_peak, pw_flushed, pw_created>>

IdlePWriter ==
    /\ pw_dest = NoDest
    /\ pw_current = None
    /\ pw_streams = {}
    /\ pw_peak = 0
    /\ pw_flushed = 0
    /\ pw_raised = FALSE
    /\ pw_ops = MaxWriterOps
    /\ pw_initial = NoDest
    /\ pw_created = <<>>

\* open() / __enter__
PW_Open ==
    /\ pw_ops < MaxWriterOps
    /\ pw_ops' = pw_ops + 1
    /\ IF pw_current = None
       THEN PW_OpenWriter
       ELSE /\ pw_raised' = FALSE
            /\ UNCHANGED <<pw_dest, pw_current, pw_streams, pw_peak, pw_flushed, pw_created>>
    /\ UNCHANGED pw_initial
    /\ UNCHANGED notPWriter

\* append(datum, flush)
PW_Append ==
    /\ pw_ops < MaxWriterOps
    /\ pw_ops' = pw_ops + 1
    /\ \E flush \in BOOLEAN :
        IF pw_current = None
        THEN /\ pw_raised' = TRUE
             /\ UNCHANGED <<pw_dest, pw_flushed>>
        ELSE /\ pw_dest' = WriterAppend(pw_dest, pw_current, pw_ops + 1)
             /\ pw_flushed' = IF flush THEN Len(pw_dest[pw_current]) + 1 ELSE pw_flushed
             /\ pw_raised' = FALSE
    /\ UNCHANGED <<pw_current, pw_streams, pw_peak, pw_initial, pw_created>>
    /\ UNCHANGED notPWriter

\* flush()
PW_Flush ==
    /\ pw_ops < MaxWriterOps
    /\ pw_ops' = pw_ops + 1
    /\ IF pw_current = None
       THEN /\ pw_raised' = TRUE
            /\ UNCHANGED pw_flushed
       ELSE /\ pw_flushed' = Len(pw_dest[pw_current])
            /\ pw_raised' = FALSE
    /\ UNCHANGED <<pw_dest, pw_current, pw_streams, pw_peak, pw_initial, pw_created>>
    /\ UNCHANGED notPWriter

\* roll()
PW_Roll ==
    /\ pw_ops < MaxWriterOps
    /\ pw_ops' = pw_ops + 1
    /\ IF pw_current = None
       THEN /\ pw_raised' = TRUE
            /\ UNCHANGED <<pw_dest, pw_current, pw_streams, pw_peak, pw_flushed, pw_created>>
       ELSE PW_OpenWriter
    /\ UNCHANGED pw_initial
    /\ UNCHANGED notPWriter

\* close() / __exit__
PW_Close ==
    /\ pw_ops < MaxWriterOps
    /\ pw_ops' = pw_ops + 1
    /\ pw_streams' = IF pw_current # None THEN CloseCurrent(pw_streams, pw_current)
                     ELSE pw_streams
    /\ pw_current' = None
    /\ pw_flushed' = 0
    /\ pw_raised' = FALSE
    /\ UNCHANGED <<pw_dest, pw_peak, pw_initial, pw_created>>
    /\ UNCHANGED notPWriter

(***************************************************************************)
(* PartitionedAvroWriter.next_filename on strings                          *)
(*                                                                         *)
(* A string is a sequence of one-character strings.                        *)
(***************************************************************************)
DigitChars == <<"0", "1", "2", "3", "4", "5", "6", "7", "8", "9">>

\* \d on the characters of the model
IsDigit(c) == \E d \in 1..10 : DigitChars[d] = c

\* int() of one digit character
DigitOf(c) == (CHOOSE d \in 1..10 : DigitChars[d] = c) - 1

PartPrefix == <<"p", "a", "r", "t", "-">>

AvroSuffix == <<".", "a", "v", "r", "o">>

\* re.search(r"part-(\d+)", name): the position of the leftmost match, 0
\* when there is none.
SearchPart(name) ==
    LET hits == {i \in 1..(Len(name) - 5) :
                    /\ SubSeq(name, i, i + 4) = PartPrefix
                    /\ IsDigit(name[i + 5])}
    IN  IF hits = {} THEN 0 ELSE CHOOSE i \in hits : \A j \in hits : i <= j

RECURSIVE DigitRun(_, _)
\* (\d+) from position i: the longest run of digits, as digit values.
DigitRun(name, i) ==
    IF i > Len(name) \/ ~IsDigit(name[i]) THEN <<>>
    ELSE <<DigitOf(name[i])>> \o DigitRun(name, i + 1)

\* f"part-{i:05d}.avro"
FormatPart(i) ==
    PartPrefix \o [k \in 1..Len(ZeroPad(Digits(i), 5)) |-> DigitChars[ZeroPad(Digits(i), 5)[k] + 1]]
               \o AvroSuffix

\* next_filename(previous): `if previous:` takes None and the empty string
\* alike, and both are the same value <<>> here.
next_filename(previous) ==
    IF previous = None THEN [raised |-> FALSE, name |-> FormatPart(0)]
    ELSE IF SearchPart(previous) = 0 THEN [raised |-> TRUE, name |-> None]
    ELSE [raised |-> FALSE,
          name |-> FormatPart(ParseInt(DigitRun(previous, SearchPart(previous) + 5)) + 1)]

\* The indexes the well-formed names are built from.
NameIndexes == 0..12 \cup {98, 99, 100, 998, 999, 9998, 9999, 99998, 99999, 100000, 100001}

\* Other strings: part- followed by up to MaxNameDigits digits, with or
\* without something before and after, and names without part-<digits>.
OtherNames ==
    {pre \o PartPrefix \o ds \o suf :
        pre \in {<<>>, <<"x">>, <<"p", "a", "r", "t", "-", "_">>},
        ds \in SeqsUpTo({"0", "1", "9"}, MaxNameDigits),
        suf \in {<<>>, AvroSuffix}}
    \cup {<<"i", "n", "v", "a", "l", "i", "d", "_", "n", "a", "m", "e">> \o AvroSuffix,
          <<"p", "a", "r", "t">>, <<"p", "a", "r", "t", "0", "0", "1">>, AvroSuffix}

IdleNaming ==
    /\ nf_pc = "idle"
    /\ nf_previous = None
    /\ nf_none = TRUE
    /\ nf_index = -1
    /\ nf_result = [raised |-> FALSE, name |-> None]
    /\ nf_calls = 0

\* The call of next_filename(previous).
NF_Call ==
    /\ nf_pc = "call"
    /\ nf_result' = next_filename(nf_previous)
    /\ nf_calls' = nf_calls + 1
    /\ nf_pc' = "returned"
    /\ UNCHANGED <<nf_previous, nf_none, nf_index>>
    /\ UNCHANGED notNaming

\* The name returned becomes the last name of the destination, as in
\* _open_writer: the next call is made on it.
NF_Again ==
    /\ nf_pc = "returned"
    /\ ~nf_result.raised
    /\ nf_calls < MaxCalls
    /\ nf_previous' = nf_result.name
    /\ nf_none' = FALSE
    /\ nf_index' = IF nf_previous = <<>> THEN 0
                   ELSE IF nf_index >= 0 THEN nf_index + 1 ELSE -1
    /\ nf_pc' = "call"
    /\ UNCHANGED <<nf_result, nf_calls>>
    /\ UNCHANGED notNaming

(***************************************************************************)
(* Schema evolution: flatten_avro_schema_fields and                        *)
(* validate_avro_schema_evolution                                          *)
(*                                                                         *)
(* A schema is a record [kind, name, symbols, schemas, fields]; a field is *)
(* [name, type, has_default], has_default standing for "default" in        *)
(* field.props.  A path is the sequence of the names joined by dots.       *)
(***************************************************************************)
PrimitiveSchema(name) ==
    [kind |-> "primitive", name |-> name, symbols |-> {}, schemas |-> <<>>, fields |-> <<>>]

EnumSchema(symbols) ==
    [kind |-> "enum", name |-> "E", symbols |-> symbols, schemas |-> <<>>, fields |-> <<>>]

UnionSchema(schemas) ==
    [kind |-> "union", name |-> "union", symbols |-> {}, schemas |-> schemas, fields |-> <<>>]

RecordSchema(name, fields) ==
    [kind |-> "record", name |-> name, symbols |-> {}, schemas |-> <<>>, fields |-> fields]

Field(name, type, has_default) == [name |-> name, type |-> type, has_default |-> has_default]

\* str(i) for the index of a union branch
IndexNames == <<"0", "1", "2">>

RECURSIVE flatten_avro_schema_fields(_, _)
RECURSIVE FlattenFieldList(_, _)
RECURSIVE FlattenUnionBranches(_, _, _)
\* The entries one field adds to the accumulator: a record field adds the
\* entries of its fields and not itself; a union field adds itself and the
\* entries of its record branches; any other field adds itself.
FlattenField(field, path) ==
    LET name == Append(path, field.name)
    IN  IF field.type.kind = "record"
        THEN flatten_avro_schema_fields(field.type, name)
        ELSE IF field.type.kind = "union"
        THEN <<[path |-> name, field |-> field]>>
                 \o FlattenUnionBranches(field.type.schemas, name, 0)
        ELSE <<[path |-> name, field |-> field]>>

FlattenUnionBranches(schemas, name, i) ==
    IF schemas = <<>> THEN <<>>
    ELSE (IF Head(schemas).kind = "record"
          THEN flatten_avro_schema_fields(Head(schemas),
                                          name \o <<"__union__", IndexNames[i + 1]>>)
          ELSE <<>>)
         \o FlattenUnionBranches(Tail(schemas), name, i + 1)

FlattenFieldList(fields, path) ==
    IF fields = <<>> THEN <<>>
    ELSE FlattenField(Head(fields), path) \o FlattenFieldList(Tail(fields), path)

\* flatten_avro_schema_fields(schema, path): the items of the dictionary it
\* returns, in insertion order.
flatten_avro_schema_fields(schema, path) ==
    IF schema.kind = "record" THEN FlattenFieldList(schema.fields, path) ELSE <<>>

\* name in fields
HasPath(flat, path) == \E k \in 1..Len(flat) : flat[k].path = path

\* fields[name]
FieldAt(flat, path) == flat[CHOOSE k \in 1..Len(flat) : flat[k].path = path].field

\* set(type.schemas), set(type.symbols)
Range(seq) == {seq[k] : k \in 1..Len(seq)}

\* isinstance(s, RecordSchema) and s.name == "null"
IsNullBranch(s) == s.kind = "record" /\ s.name = "null"

NoError == [raised |-> FALSE, error |-> "none", path |-> <<>>]

Raise(error, path) == [raised |-> TRUE, error |-> error, path |-> path]

\* The body of the first loop for one item of schema_b_fields: the
\* ValueError it raises, or NoError.
CheckNewField(path, field, a_fields) ==
    IF ~HasPath(a_fields, path)
    THEN IF ~field.has_default THEN Raise("missing a default value", path) ELSE NoError
    ELSE LET old_field == FieldAt(a_fields, path)
         IN  IF ~field.has_default /\ old_field.has_default
             THEN Raise("default value cannot be removed", path)
             ELSE IF field.type = old_field.type THEN NoError
             ELSE IF field.type.kind = "enum" /\ old_field.type.kind = "enum"
             THEN IF old_field.type.symbols \subseteq field.type.symbols THEN NoError
                  ELSE Raise("enum has changed", path)
             ELSE IF field.type.kind = "union" /\ old_field.type.kind = "union"
             THEN IF Range(old_field.type.schemas) \subseteq Range(field.type.schemas)
                  THEN NoError
                  ELSE Raise("union has changed", path)
             ELSE IF field.type.kind # "union" THEN Raise("type has changed", path)
             ELSE IF \/ Len(field.type.schemas) # 2
                     \/ ~\E k \in 1..Len(field.type.schemas) :
                            IsNullBranch(field.type.schemas[k])
             THEN Raise("type has changed", path)
             ELSE NoError

\* A second loop that lets every removed field pass.
CheckOldFieldNone(path, field, b_fields) == NoError

\* The body of the second loop for one item of schema_a_fields.
CheckOldField(path, field, b_fields) ==
    IF ~HasPath(b_fields, path) /\ ~field.has_default
    THEN Raise("missing a default value", path)
    ELSE NoError

RECURSIVE FirstError(_)
\* The loops stop at the first ValueError.
FirstError(results) ==
    IF results = <<>> THEN NoError
    ELSE IF Head(results).raised THEN Head(results)
    ELSE FirstError(Tail(results))

validate_avro_schema_evolution(schema_a, schema_b) ==
    LET a_fields == flatten_avro_schema_fields(schema_a, <<>>)
        b_fields == flatten_avro_schema_fields(schema_b, <<>>)
    IN  FirstError(
            [k \in 1..Len(b_fields) |-> CheckNewField(b_fields[k].path, b_fields[k].field, a_fields)]
            \o [k \in 1..Len(a_fields) |-> CheckOldField(a_fields[k].path, a_fields[k].field, b_fields)])

\* The types of the field f of the schemas of the model.
FieldTypes ==
    {PrimitiveSchema("int"), PrimitiveSchema("string"),
     EnumSchema({"A"}), EnumSchema({"A", "B"}),
     UnionSchema(<<PrimitiveSchema("null"), PrimitiveSchema("int")>>),
     UnionSchema(<<PrimitiveSchema("int"), PrimitiveSchema("null")>>),
     UnionSchema(<<PrimitiveSchema("null"), PrimitiveSchema("int"), PrimitiveSchema("string")>>),
     UnionSchema(<<PrimitiveSchema("int"), PrimitiveSchema("string")>>),
     UnionSchema(<<RecordSchema("null", <<>>), PrimitiveSchema("int")>>)}

\* The field f: absent, or of one of the types with or without a default.
FieldsF == {<<>>} \cup {<<Field("f", t, d)>> : t \in FieldTypes, d \in BOOLEAN}

\* The field g: absent, an int, a nested record, or a union with a record
\* branch; the nested field x with or without a default.
FieldsG ==
    {<<>>}
    \cup {<<Field("g", PrimitiveSchema("int"), d)>> : d \in BOOLEAN}
    \cup {<<Field("g", RecordSchema("Inner", <<Field("x", PrimitiveSchema("int"), d)>>), FALSE)>> :
            d \in BOOLEAN}
    \cup {<<Field("g", UnionSchema(<<PrimitiveSchema("null"),
                                     RecordSchema("Inner", <<Field("x", PrimitiveSchema("int"), d)>>)>>),
                  TRUE)>> : d \in BOOLEAN}

EvolutionSchemas == {RecordSchema("Test", f \o g) : f \in FieldsF, g \in FieldsG}

IdleSchema ==
    /\ se_pc = "idle"
    /\ se_a = RecordSchema("Test", <<>>)
    /\ se_b = RecordSchema("Test", <<>>)
    /\ se_result = NoError

\* The call validate_avro_schema_evolution(schema_a, schema_b).
SE_Validate ==
    /\ se_pc = "call"
    /\ se_result' = validate_avro_schema_evolution(se_a, se_b)
    /\ se_pc' = "returned"
    /\ UNCHANGED <<se_a, se_b>>
    /\ UNCHANGED notSchema

(***************************************************************************)
(* flatten_urls                                                            *)
(*                                                                         *)
(* A URL is its string; the entry None of a list is the string "None".     *)
(***************************************************************************)
\* The URLs of the model: a file, a directory, a file in it, a pattern over
\* the directory, a pattern without matches and a path that does not exist.
UrlStrings == {"a", "d", "d/a", "d/*", "e*", "m"}

\* url.expand() for the URLs of the model.
ExpandUrl(url) ==
    CASE url = "d"   -> <<"d/a", "d/b">>
      [] url = "d/*" -> <<"d/a", "d/b">>
      [] url = "e*"  -> <<>>
      [] OTHER       -> <<url>>

RECURSIVE DeduplicateKeepLast(_, _)
\* A loop that keeps the last occurrence of a string instead of the first.
DeduplicateKeepLast(acc, seen) ==
    IF acc = <<>> THEN <<>>
    ELSE IF \E k \in 2..Len(acc) : acc[k] = Head(acc)
         THEN DeduplicateKeepLast(Tail(acc), seen)
         ELSE <<Head(acc)>> \o DeduplicateKeepLast(Tail(acc), seen)

RECURSIVE Deduplicate(_, _)
\* The last loop: a URL whose string was seen is skipped.
Deduplicate(acc, seen) ==
    IF acc = <<>> THEN <<>>
    ELSE IF Head(acc) \in seen THEN Deduplicate(Tail(acc), seen)
    ELSE <<Head(acc)>> \o Deduplicate(Tail(acc), seen \cup {Head(acc)})

\* isinstance(url, URL) for an entry of the list
IsUrl(item) == item # "None"

flatten_urls(urls, expand) ==
    LET flat == IF urls.kind = "none" \/ urls.items = <<>> THEN <<>>
                ELSE IF urls.kind = "url" THEN urls.items
                ELSE SelectSeq(urls.items, IsUrl)
        acc  == IF expand THEN Flatten([k \in 1..Len(flat) |-> ExpandUrl(flat[k])])
                ELSE flat
    IN  Deduplicate(acc, {})

\* The arguments: None, one URL, or a list of up to MaxUrls URLs and Nones.
FlattenInputs ==
    {[kind |-> "none", items |-> <<>>]}
    \cup {[kind |-> "url", items |-> <<u>>] : u \in UrlStrings}
    \cup {[kind |-> "list", items |-> items] :
            items \in SeqsUpTo(UrlStrings \cup {"None"}, MaxUrls)}

IdleFlatten ==
    /\ fu_pc = "idle"
    /\ fu_urls = [kind |-> "none", items |-> <<>>]
    /\ fu_expand = TRUE
    /\ fu_result = <<>>

\* The call flatten_urls(urls, expand).
FU_Call ==
    /\ fu_pc = "call"
    /\ fu_result' = flatten_urls(fu_urls, fu_expand)
    /\ fu_pc' = "returned"
    /\ UNCHANGED <<fu_urls, fu_expand>>
    /\ UNCHANGED notFlatten

(***************************************************************************)
(* FileURL.expand on a directory tree                                      *)
(*                                                                         *)
(* A path is the sequence of the code points of its characters, so that    *)
(* LexLess is the order of Python strings.  The URL prefix is the same for *)
(* every URL returned and is left out.                                     *)
(***************************************************************************)
Slash == <<47>>

\* The path of the directory: "d"
RootPath == <<100>>

\* os.path.join(root, filename)
JoinPath(root, name) == root \o Slash \o name

\* File names: "a", "z", "b.x"
FileNames == {<<97>>, <<122>>, <<98, 46, 120>>}

\* Names of subdirectories: "b", "c"
DirNames == {<<98>>, <<99>>}

\* The directories of the model: files at the top and up to two
\* subdirectories with files of their own.
Trees ==
    {[files |-> fs, dirs |-> ds] :
        fs \in SUBSET FileNames,
        ds \in UNION {[names -> SUBSET FileNames] : names \in SUBSET DirNames}}

\* The inner loop for one directory os.walk yields:
\* for filename in sorted(filenames): os.path.join(root, filename)
WalkFiles(root, filenames) ==
    [k \in 1..Cardinality(filenames) |-> JoinPath(root, SortedNames(filenames)[k])]

\* os.walk(path), top-down: the directory itself first, then its
\* subdirectories in the order the operating system lists them.
WalkTree(tree, order) ==
    WalkFiles(RootPath, tree.files)
    \o Flatten([k \in 1..Len(order) |-> WalkFiles(JoinPath(RootPath, order[k]), tree.dirs[order[k]])])

\* The orders in which the subdirectories may be listed.
DirOrders(tree) ==
    {order \in [1..Cardinality(DOMAIN tree.dirs) -> DOMAIN tree.dirs] :
        \A i, j \in 1..Cardinality(DOMAIN tree.dirs) : (i # j) => (order[i] # order[j])}

\* glob.glob("d/*"): the entries of the directory, files and
\* subdirectories alike; expand() sorts them.
GlobMatches(tree) ==
    {JoinPath(RootPath, name) : name \in tree.files \cup DOMAIN tree.dirs}

IdleExpand ==
    /\ ex_pc = "idle"
    /\ ex_kind = "missing"
    /\ ex_tree = [files |-> {}, dirs |-> <<>>]
    /\ ex_result = <<>>

\* The call expand().
EX_Expand ==
    /\ ex_pc = "call"
    /\ \/ /\ ex_kind = "pattern"
          /\ ex_result' = SortedNames(GlobMatches(ex_tree))
       \/ /\ ex_kind \in {"file", "missing"}
          /\ ex_result' = <<RootPath>>
       \/ /\ ex_kind = "directory"
          /\ \E order \in DirOrders(ex_tree) : ex_result' = WalkTree(ex_tree, order)
    /\ ex_pc' = "returned"
    /\ UNCHANGED <<ex_kind, ex_tree>>
    /\ UNCHANGED notExpand

(***************************************************************************)
(* Object-store URLs: S3URL and GoogleCloudStorageURL                      *)
(***************************************************************************)
NoObject == [exists |-> FALSE, data |-> <<>>]

\* The objects a URL may name before it is opened.
RemoteObjects == {NoObject} \cup {[exists |-> TRUE, data |-> d] : d \in {<<>>, <<7>>, <<7, 8>>}}

\* S3URL.open(): the object is downloaded only when "r" is in the mode.
S3Downloads(mode, remote) == mode = "rb"

\* GoogleCloudStorageURL.open(): downloaded for "r", and for "a" when the
\* blob exists.
GcsDownloads(mode, remote) == mode = "rb" \/ (mode = "ab" /\ remote.exists)

Downloads(backend, mode, remote) ==
    IF backend = "s3" THEN S3Downloads(mode, remote) ELSE GcsDownloads(mode, remote)

\* The position after open(): seek(0) after a download; the GCS URL then
\* seeks to the end for "a".
OpenPosition(backend, mode, scratch) ==
    IF backend = "gcs" /\ mode = "ab" THEN Len(scratch) ELSE 0

\* stream.write of one byte at the position of the scratch file
WriteAt(scratch, pos, byte) ==
    SubSeq(scratch, 1, pos) \o <<byte>> \o SubSeq(scratch, pos + 2, Len(scratch))

IdleObject ==
    /\ os_pc = "idle"
    /\ os_backend = "s3"
    /\ os_mode = "rb"
    /\ os_remote = NoObject
    /\ os_before = NoObject
    /\ os_scratch = <<>>
    /\ os_pos = 0
    /\ os_written = <<>>
    /\ os_local = FALSE
    /\ os_raised = FALSE

\* The scratch file after its handle is closed: it was created with
\* delete=False, so it stays on the disk.
ScratchAfterClose(local) == local

\* open(): a fresh scratch file, filled from the object when the mode asks
\* for it.  Downloading an object that does not exist raises.
OS_Open ==
    /\ os_pc = "new"
    /\ os_local' = TRUE
    /\ IF Downloads(os_backend, os_mode, os_remote) /\ ~os_remote.exists
       THEN /\ os_pc' = "error"
            /\ UNCHANGED <<os_scratch, os_pos>>
       ELSE /\ os_scratch' = IF Downloads(os_backend, os_mode, os_remote)
                             THEN os_remote.data ELSE <<>>
            /\ os_pos' = OpenPosition(os_backend, os_mode, os_scratch')
            /\ os_pc' = "open"
    /\ UNCHANGED <<os_backend, os_mode, os_remote, os_before, os_written, os_raised>>
    /\ UNCHANGED notObject

\* The client writes one byte to the stream open() returned.
OS_Write ==
    /\ os_pc = "open"
    /\ os_mode \in {"wb", "ab"}
    /\ Len(os_written) < MaxWrites
    /\ \E byte \in {1, 2} :
        /\ os_scratch' = WriteAt(os_scratch, os_pos, byte)
        /\ os_written' = Append(os_written, byte)
    /\ os_pos' = os_pos + 1
    /\ UNCHANGED <<os_pc, os_backend, os_mode, os_remote, os_before, os_local, os_raised>>
    /\ UNCHANGED notObject

\* The client reads one byte from the stream.
OS_Read ==
    /\ os_pc = "open"
    /\ os_mode = "rb"
    /\ os_pos < Len(os_scratch)
    /\ os_pos' = os_pos + 1
    /\ UNCHANGED <<os_pc, os_backend, os_mode, os_remote, os_before, os_scratch, os_written,
                   os_local, os_raised>>
    /\ UNCHANGED notObject

\* close(): the scratch file is flushed and, for "w" and "a", uploaded over
\* the object; the upload may fail, and close() then raises.  In the finally
\* block the handle of the scratch file is closed.
OS_Close ==
    /\ os_pc = "open"
    /\ \E uploaded \in BOOLEAN :
        /\ (os_mode = "rb") => uploaded
        /\ os_remote' = IF os_mode \in {"wb", "ab"} /\ uploaded
                        THEN [exists |-> TRUE, data |-> os_scratch] ELSE os_remote
        /\ os_raised' = ~uploaded
    /\ os_local' = ScratchAfterClose(os_local)
    /\ os_pc' = "closed"
    /\ UNCHANGED <<os_backend, os_mode, os_before, os_scratch, os_pos, os_written>>
    /\ UNCHANGED notObject

(***************************************************************************)
(* FileSortTool                                                            *)
(*                                                                         *)
(* A record is [k, id]: k is the value of the one sort field, id tells     *)
(* records with equal keys apart.                                          *)
(***************************************************************************)
\* sort_key(sort_fields)(record) with sort_fields = ["k"]
SortKey(record) == <<record.k>>

\* The order of Python tuples of integers of equal length.
TupleLess(a, b) ==
    \E i \in 1..Len(a) :
        /\ a[i] < b[i]
        /\ \A j \in 1..(i - 1) : a[j] = b[j]

RECURSIVE InsertSorted(_, _, _)
\* rec is put behind every record that must not come after it: sorted() is
\* stable, also with reverse=True.
InsertSorted(recs, rec, reverse) ==
    IF recs = <<>> THEN <<rec>>
    ELSE LET first  == Head(recs)
             before == IF reverse THEN TupleLess(SortKey(first), SortKey(rec))
                       ELSE TupleLess(SortKey(rec), SortKey(first))
         IN  IF before THEN <<rec>> \o recs
             ELSE <<first>> \o InsertSorted(Tail(recs), rec, reverse)

RECURSIVE Sorted(_, _)
\* sorted(records, key=sort_key, reverse=reverse)
Sorted(records, reverse) ==
    IF records = <<>> THEN <<>>
    ELSE InsertSorted(Sorted(SubSeq(records, 1, Len(records) - 1), reverse),
                      records[Len(records)], reverse)

\* sort_and_write_batch: the records batch_<batch_id>.avro holds.
SortAndWriteBatch(records, reverse) == Sorted(records, reverse)

\* Spill files read one after the other: the first iterator that still has
\* a record, whatever its key.
MergePickFirst(iters) ==
    CHOOSE i \in 1..Len(iters) :
        /\ iters[i] # <<>>
        /\ \A j \in 1..(i - 1) : iters[j] = <<>>

\* heapq.merge(*iterators, key=sort_key), one step: the index of the
\* iterator whose head has the least key, the first such iterator winning a
\* tie.  The merge is not told about reverse.
MergePick(iters) ==
    LET live == {i \in 1..Len(iters) : iters[i] # <<>>}
    IN  CHOOSE i \in live :
            \A j \in live \ {i} :
                \/ TupleLess(SortKey(Head(iters[i])), SortKey(Head(iters[j])))
                \/ /\ SortKey(Head(iters[i])) = SortKey(Head(iters[j]))
                   /\ i < j

\* The permutations of 1..n: the orders in which os.listdir may list n files.
Listings(n) ==
    {p \in [1..n -> 1..n] : \A i, j \in 1..n : i # j => p[i] # p[j]}

\* The files to sort: up to MaxRecords records with keys in 0..MaxKey.
SortInputs ==
    {[i \in 1..Len(ks) |-> [k |-> ks[i], id |-> i]] : ks \in SeqsUpTo(0..MaxKey, MaxRecords)}

IdleSort ==
    /\ fs_pc = "idle"
    /\ fs_input = <<>>
    /\ fs_batch_size = 1
    /\ fs_reverse = FALSE
    /\ fs_next = 0
    /\ fs_batch = <<>>
    /\ fs_spills = <<>>
    /\ fs_iters = <<>>
    /\ fs_order = <<>>
    /\ fs_out = <<>>

\* The body of `for record in reader`: the record joins the batch, and a
\* full batch is sorted and written to the next spill file.
FS_Read ==
    /\ fs_pc = "read"
    /\ fs_next < Len(fs_input)
    /\ fs_next' = fs_next + 1
    /\ LET batch == Append(fs_batch, fs_input[fs_next + 1])
       IN  IF Len(batch) >= fs_batch_size
           THEN /\ fs_spills' = Append(fs_spills, SortAndWriteBatch(batch, fs_reverse))
                /\ fs_batch' = <<>>
           ELSE /\ fs_batch' = batch
                /\ UNCHANGED fs_spills
    /\ UNCHANGED <<fs_pc, fs_input, fs_batch_size, fs_reverse, fs_iters, fs_order, fs_out>>
    /\ UNCHANGED notSort

\* After the loop: `if batch:` spills what is left.
FS_SpillRest ==
    /\ fs_pc = "read"
    /\ fs_next = Len(fs_input)
    /\ fs_spills' = IF fs_batch # <<>>
                    THEN Append(fs_spills, SortAndWriteBatch(fs_batch, fs_reverse))
                    ELSE fs_spills
    /\ fs_batch' = <<>>
    /\ fs_pc' = "merge_open"
    /\ UNCHANGED <<fs_input, fs_batch_size, fs_reverse, fs_next, fs_iters, fs_order, fs_out>>
    /\ UNCHANGED notSort

\* The output writer is opened and one reader per spill file, in the order
\* os.listdir lists the files.
FS_MergeOpen ==
    /\ fs_pc = "merge_open"
    /\ \E listing \in Listings(Len(fs_spills)) :
        /\ fs_order' = [i \in 1..Len(fs_spills) |-> listing[i] - 1]
        /\ fs_iters' = [i \in 1..Len(fs_spills) |-> fs_spills[listing[i]]]
    /\ fs_pc' = "merge"
    /\ UNCHANGED <<fs_input, fs_batch_size, fs_reverse, fs_next, fs_batch, fs_spills, fs_out>>
    /\ UNCHANGED notSort

\* One record of the merge is appended to the output.
FS_MergeStep ==
    /\ fs_pc = "merge"
    /\ \E i \in 1..Len(fs_iters) : fs_iters[i] # <<>>
    /\ LET i == MergePick(fs_iters)
       IN  /\ fs_out' = Append(fs_out, Head(fs_iters[i]))
           /\ fs_iters' = [fs_iters EXCEPT ![i] = Tail(@)]
    /\ UNCHANGED <<fs_pc, fs_input, fs_batch_size, fs_reverse, fs_next, fs_batch,
                   fs_spills, fs_order>>
    /\ UNCHANGED notSort

\* The merge is exhausted: the readers and the writer are closed.
FS_Close ==
    /\ fs_pc = "merge"
    /\ \A i \in 1..Len(fs_iters) : fs_iters[i] = <<>>
    /\ fs_pc' = "done"
    /\ UNCHANGED <<fs_input, fs_batch_size, fs_reverse, fs_next, fs_batch, fs_spills,
                   fs_iters, fs_order, fs_out>>
    /\ UNCHANGED notSort

(***************************************************************************)
(* Specifications                                                          *)
(***************************************************************************)
vars == <<wvars, rvars, rpvars, fcvars, bcvars, ptvars, fsvars, pwvars, nfvars, sevars, fuvars, exvars, osvars, scvars>>

InitWriter ==
    /\ IdleScan
    /\ IdleObject
    /\ IdleExpand
    /\ IdleFlatten
    /\ IdleSchema
    /\ IdleNaming
    /\ IdlePWriter
    /\ IdleWriter /\ IdleReader /\ IdleRepair /\ IdleCount
    /\ IdleConcat /\ IdlePartition /\ IdleSort

NextWriter ==
    \/ DW_Start
    \/ DW_Append
    \/ DW_StopSet
    \/ DW_StopJoin
    \/ DW_WhileDone
    \/ DW_WhileQueue
    \/ DW_Get
    \/ DW_GetTimeout

SpecWriter == InitWriter /\ [][NextWriter]_vars

InitReader ==
    /\ IdleScan
    /\ IdleObject
    /\ IdleExpand
    /\ IdleFlatten
    /\ IdleSchema
    /\ IdleNaming
    /\ IdlePWriter
    /\ IdleSort
    /\ IdlePartition
    /\ IdleWriter
    /\ IdleRepair
    /\ IdleCount
    /\ IdleConcat
    /\ r_data \in Sources
    /\ r_idx = 0
    /\ r_worker = "idle"
    /\ r_queue = <<>>
    /\ r_done = FALSE
    /\ r_cons = "new"
    /\ r_ret = "none"
    /\ r_retq = 0
    /\ r_got = <<>>

NextReader ==
    \/ BR_Start
    \/ BR_Put
    \/ BR_EndFor
    \/ BR_Finally
    \/ BR_EmptyQueue
    \/ BR_EmptyDone
    \/ BR_Get
    \/ BR_StopSet
    \/ BR_StopJoin

SpecReader == InitReader /\ [][NextReader]_vars

\* The reader thread, once started, is scheduled until it exits.
SpecReaderLive ==
    /\ InitReader
    /\ [][NextReader]_vars
    /\ WF_vars(BR_Put \/ BR_EndFor \/ BR_Finally)

InitRepair ==
    /\ IdleScan
    /\ IdleObject
    /\ IdleExpand
    /\ IdleFlatten
    /\ IdleSchema
    /\ IdleNaming
    /\ IdlePWriter
    /\ IdleSort
    /\ IdlePartition
    /\ IdleWriter
    /\ IdleReader
    /\ IdleCount
    /\ IdleConcat
    /\ rp_pc = "start"
    /\ rp_shape \in Shapes
    /\ \E codec \in Codecs :
        /\ rp_damage \in Damages(Len(RepairOriginal(codec, rp_shape).body))
        /\ codec = "null" \/ rp_damage.kind = "none"
        /\ rp_in = Damaged(RepairOriginal(codec, rp_shape), rp_damage)
    /\ rp_pos = 0
    /\ rp_out = <<>>
    /\ rp_blocks = 0
    /\ rp_corrupt = 0
    /\ rp_report = <<>>
    /\ rp_dry_run = FALSE
    /\ rp_user = NoOutput
    /\ rp_touched = {}
    /\ rp_tmp = NoOutput
    /\ rp_url = ""
    /\ rp_first = <<>>
    /\ rp_runs = 1

NextRepair ==
    \/ RP_ReadHeader
    \/ RP_Block
    \/ RP_CloseWriter
    \/ RP_Report

SpecRepair == InitRepair /\ [][NextRepair]_vars

\* repair called with and without dry_run on the files of up to
\* MaxDryBlocks blocks, the caller's output URL naming a file or nothing.
InitDryRun ==
    /\ IdleScan
    /\ IdleObject
    /\ IdleExpand
    /\ IdleFlatten
    /\ IdleSchema
    /\ IdleNaming
    /\ IdlePWriter
    /\ IdleSort
    /\ IdlePartition
    /\ IdleWriter
    /\ IdleReader
    /\ IdleCount
    /\ IdleConcat
    /\ rp_pc = "start"
    /\ rp_shape \in SeqsUpTo(1..MaxDryBlockRecs, MaxDryBlocks)
    /\ \E codec \in Codecs :
        /\ rp_damage \in Damages(Len(RepairOriginal(codec, rp_shape).body))
        /\ codec = "null" \/ rp_damage.kind = "none"
        /\ rp_in = Damaged(RepairOriginal(codec, rp_shape), rp_damage)
    /\ rp_pos = 0
    /\ rp_out = <<>>
    /\ rp_blocks = 0
    /\ rp_corrupt = 0
    /\ rp_report = <<>>
    /\ rp_dry_run \in BOOLEAN
    /\ rp_user \in UserFiles
    /\ rp_touched = {}
    /\ rp_tmp = NoOutput
    /\ rp_url = ""
    /\ rp_first = <<>>
    /\ rp_runs = 1

NextDryRun ==
    \/ RP_ReadHeader
    \/ RP_Block
    \/ RP_CloseWriter
    \/ RP_Report
    \/ RP_Again

SpecDryRun == InitDryRun /\ [][NextDryRun]_vars

\* The byte values of the arbitrary bodies: the varints of 0, -1, 1, -2
\* and a continuation byte.
RawBytes == {0, 1, 2, 3, 255}

\* What an arbitrary body is put together from: single bytes and a whole
\* block of one record, which ends with the sync marker of the header.
Pieces ==
    {<<b>> : b \in RawBytes} \cup {EncodeBlock("null", <<1>>, SyncMarker(6))}

\* repair on any bytes after a valid null-codec header: every body of up to
\* MaxPieces pieces.
InitRepairAny ==
    /\ IdleScan
    /\ IdleObject
    /\ IdleExpand
    /\ IdleFlatten
    /\ IdleSchema
    /\ IdleNaming
    /\ IdlePWriter
    /\ IdleSort
    /\ IdlePartition
    /\ IdleWriter
    /\ IdleReader
    /\ IdleCount
    /\ IdleConcat
    /\ rp_pc = "start"
    /\ rp_shape = <<>>
    /\ rp_damage = [kind |-> "none", at |-> 0, val |-> 0]
    /\ \E pieces \in SeqsUpTo(Pieces, MaxPieces) :
          rp_in = [RepairOriginal("null", <<>>) EXCEPT !.body = Flatten(pieces)]
    /\ rp_pos = 0
    /\ rp_out = <<>>
    /\ rp_blocks = 0
    /\ rp_corrupt = 0
    /\ rp_report = <<>>
    /\ rp_dry_run = FALSE
    /\ rp_user = NoOutput
    /\ rp_touched = {}
    /\ rp_tmp = NoOutput
    /\ rp_url = ""
    /\ rp_first = <<>>
    /\ rp_runs = 1

\* The thread that called repair keeps running until repair returns.
SpecRepairLive ==
    /\ InitRepairAny
    /\ [][NextRepair]_vars
    /\ WF_vars(NextRepair)

InitCount ==
    /\ IdleScan
    /\ IdleObject
    /\ IdleExpand
    /\ IdleFlatten
    /\ IdleSchema
    /\ IdleNaming
    /\ IdlePWriter
    /\ IdleSort
    /\ IdlePartition
    /\ IdleWriter
    /\ IdleReader
    /\ IdleRepair
    /\ IdleConcat
    /\ fc_pc = "start"
    /\ fc_shape \in Shapes
    /\ \E codec \in Codecs :
        LET written == MakeFile(codec, 6, NumberedBlocks(fc_shape, 0))
        IN  /\ fc_damage \in {d \in Damages(Len(written.body)) : d.kind # "byte"}
            /\ fc_in = Damaged(written, fc_damage)
    /\ fc_pos = 0
    /\ fc_total = 0

NextCount ==
    \/ FC_ReadHeader
    \/ FC_Block

SpecCount == InitCount /\ [][NextCount]_vars

InitConcat ==
    /\ IdleScan
    /\ IdleObject
    /\ IdleExpand
    /\ IdleFlatten
    /\ IdleSchema
    /\ IdleNaming
    /\ IdlePWriter
    /\ IdleSort
    /\ IdlePartition
    /\ IdleWriter
    /\ IdleReader
    /\ IdleRepair
    /\ IdleCount
    /\ bc_pc = "open"
    /\ bc_inputs \in InputLists
    /\ bc_i = 1
    /\ bc_pos = 0
    /\ bc_out = NoFile
    /\ bc_sync = <<>>

NextConcat ==
    \/ BC_OpenInput
    \/ BC_EndInput
    \/ BC_CopyBlock

SpecConcat == InitConcat /\ [][NextConcat]_vars

\* block_concat on inputs of which one is corrupt.
InitConcatDamaged ==
    /\ IdleScan
    /\ IdleObject
    /\ IdleExpand
    /\ IdleFlatten
    /\ IdleSchema
    /\ IdleNaming
    /\ IdlePWriter
    /\ IdleSort
    /\ IdlePartition
    /\ IdleWriter
    /\ IdleReader
    /\ IdleRepair
    /\ IdleCount
    /\ bc_pc = "open"
    /\ bc_inputs \in DamagedInputLists
    /\ bc_i = 1
    /\ bc_pos = 0
    /\ bc_out = NoFile
    /\ bc_sync = <<>>

SpecConcatDamaged == InitConcatDamaged /\ [][NextConcat]_vars

InitPartition ==
    /\ IdleScan
    /\ IdleObject
    /\ IdleExpand
    /\ IdleFlatten
    /\ IdleSchema
    /\ IdleNaming
    /\ IdlePWriter
    /\ IdleSort
    /\ IdleWriter
    /\ IdleReader
    /\ IdleRepair
    /\ IdleCount
    /\ IdleConcat
    /\ pt_pc = "start"
    /\ pt_inputs \in InputLists
    /\ pt_count \in 1..MaxPartitions
    /\ pt_force \in BOOLEAN
    /\ pt_dest \in InitialDests
    /\ pt_kind \in DestKinds
    /\ (pt_kind = "missing") => (pt_dest = NoDest)
    /\ pt_current = None
    /\ pt_i = 0
    /\ pt_reader = ReaderOpen
    /\ pt_target = 0
    /\ pt_size_cur = 0
    /\ pt_pos_last = 0
    /\ pt_opened = <<>>

NextPartition ==
    \/ PT_Preflight
    \/ PT_OpenWriter
    \/ PT_OpenInput
    \/ PT_Record
    \/ PT_EndInput
    \/ PT_Close

SpecPartition == InitPartition /\ [][NextPartition]_vars

InitSort ==
    /\ IdleScan
    /\ IdleObject
    /\ IdleExpand
    /\ IdleFlatten
    /\ IdleSchema
    /\ IdleNaming
    /\ IdlePWriter
    /\ IdleWriter
    /\ IdleReader
    /\ IdleRepair
    /\ IdleCount
    /\ IdleConcat
    /\ IdlePartition
    /\ fs_pc = "read"
    /\ fs_input \in SortInputs
    /\ fs_batch_size \in 1..MaxBatchSize
    /\ fs_reverse \in BOOLEAN
    /\ fs_next = 0
    /\ fs_batch = <<>>
    /\ fs_spills = <<>>
    /\ fs_iters = <<>>
    /\ fs_order = <<>>
    /\ fs_out = <<>>

NextSort ==
    \/ FS_Read
    \/ FS_SpillRest
    \/ FS_MergeOpen
    \/ FS_MergeStep
    \/ FS_Close

SpecSort == InitSort /\ [][NextSort]_vars

InitPWriter ==
    /\ IdleScan
    /\ IdleObject
    /\ IdleExpand
    /\ IdleFlatten
    /\ IdleSchema
    /\ IdleNaming
    /\ IdleWriter
    /\ IdleReader
    /\ IdleRepair
    /\ IdleCount
    /\ IdleConcat
    /\ IdlePartition
    /\ IdleSort
    /\ pw_dest \in InitialWriterDests
    /\ pw_current = None
    /\ pw_streams = {}
    /\ pw_peak = 0
    /\ pw_flushed = 0
    /\ pw_raised = FALSE
    /\ pw_ops = 0
    /\ pw_initial = pw_dest
    /\ pw_created = <<>>

NextPWriter ==
    \/ PW_Open
    \/ PW_Append
    \/ PW_Flush
    \/ PW_Roll
    \/ PW_Close

SpecPWriter == InitPWriter /\ [][NextPWriter]_vars

InitNaming ==
    /\ IdleScan
    /\ IdleObject
    /\ IdleExpand
    /\ IdleFlatten
    /\ IdleSchema
    /\ IdleWriter
    /\ IdleReader
    /\ IdleRepair
    /\ IdleCount
    /\ IdleConcat
    /\ IdlePartition
    /\ IdleSort
    /\ IdlePWriter
    /\ nf_pc = "call"
    /\ \/ /\ nf_index \in NameIndexes
          /\ nf_previous = FormatPart(nf_index)
          /\ nf_none = FALSE
       \/ /\ nf_index = -1
          /\ nf_previous \in OtherNames \cup {<<>>}
          /\ nf_none = FALSE
       \/ /\ nf_index = -1
          /\ nf_previous = None
          /\ nf_none = TRUE
    /\ nf_result = [raised |-> FALSE, name |-> None]
    /\ nf_calls = 0

NextNaming ==
    \/ NF_Call
    \/ NF_Again

SpecNaming == InitNaming /\ [][NextNaming]_vars

InitSchema ==
    /\ IdleScan
    /\ IdleObject
    /\ IdleExpand
    /\ IdleFlatten
    /\ IdleWriter
    /\ IdleReader
    /\ IdleRepair
    /\ IdleCount
    /\ IdleConcat
    /\ IdlePartition
    /\ IdleSort
    /\ IdlePWriter
    /\ IdleNaming
    /\ se_pc = "call"
    /\ se_a \in EvolutionSchemas
    /\ se_b \in EvolutionSchemas
    /\ se_result = NoError

NextSchema ==
    \/ SE_Validate

SpecSchema == InitSchema /\ [][NextSchema]_vars

InitFlatten ==
    /\ IdleScan
    /\ IdleObject
    /\ IdleExpand
    /\ IdleWriter
    /\ IdleReader
    /\ IdleRepair
    /\ IdleCount
    /\ IdleConcat
    /\ IdlePartition
    /\ IdleSort
    /\ IdlePWriter
    /\ IdleNaming
    /\ IdleSchema
    /\ fu_pc = "call"
    /\ fu_urls \in FlattenInputs
    /\ fu_expand \in BOOLEAN
    /\ fu_result = <<>>

NextFlatten ==
    \/ FU_Call

SpecFlatten == InitFlatten /\ [][NextFlatten]_vars

InitExpand ==
    /\ IdleScan
    /\ IdleObject
    /\ IdleWriter
    /\ IdleReader
    /\ IdleRepair
    /\ IdleCount
    /\ IdleConcat
    /\ IdlePartition
    /\ IdleSort
    /\ IdlePWriter
    /\ IdleNaming
    /\ IdleSchema
    /\ IdleFlatten
    /\ ex_pc = "call"
    /\ ex_kind \in {"directory", "pattern", "file", "missing"}
    /\ ex_tree \in Trees
    /\ (ex_kind \in {"file", "missing"}) => (ex_tree = [files |-> {}, dirs |-> <<>>])
    /\ ex_result = <<>>

NextExpand ==
    \/ EX_Expand

SpecExpand == InitExpand /\ [][NextExpand]_vars

InitScan ==
    /\ IdleWriter
    /\ IdleReader
    /\ IdleRepair
    /\ IdleCount
    /\ IdleConcat
    /\ IdlePartition
    /\ IdleSort
    /\ IdlePWriter
    /\ IdleNaming
    /\ IdleSchema
    /\ IdleFlatten
    /\ IdleExpand
    /\ IdleObject
    /\ sc_pc = "call"
    /\ sc_bytes \in SeqsUpTo({0, 1}, MaxStream)
    /\ sc_start \in 0..Len(sc_bytes)
    /\ sc_marker \in SeqsUpTo({0, 1}, MaxMarker) \ {<<>>}
    /\ sc_chunk \in 1..MaxChunk
    /\ sc_result = [found |-> FALSE, pos |-> 0]

NextScan ==
    \/ SC_Scan

SpecScan == InitScan /\ [][NextScan]_vars

InitObject ==
    /\ IdleScan
    /\ IdleWriter
    /\ IdleReader
    /\ IdleRepair
    /\ IdleCount
    /\ IdleConcat
    /\ IdlePartition
    /\ IdleSort
    /\ IdlePWriter
    /\ IdleNaming
    /\ IdleSchema
    /\ IdleFlatten
    /\ IdleExpand
    /\ os_pc = "new"
    /\ os_backend \in {"s3", "gcs"}
    /\ os_mode \in {"rb", "wb", "ab"}
    /\ os_remote \in RemoteObjects
    /\ os_before = os_remote
    /\ os_scratch = <<>>
    /\ os_pos = 0
    /\ os_written = <<>>
    /\ os_local = FALSE
    /\ os_raised = FALSE

NextObject ==
    \/ OS_Open
    \/ OS_Write
    \/ OS_Read
    \/ OS_Close

SpecObject == InitObject /\ [][NextObject]_vars

(***************************************************************************)
(* C1: when stop() returns after a clean shutdown (every append() returned *)
(* before stop() was called), every enqueued datum, whatever its value,    *)
(* has been passed to the wrapped writer's append(), in order.             *)
(***************************************************************************)
C1_CleanShutdownLosesNothing == (w_main = "stopped") => (w_passed = w_enq)

(***************************************************************************)
(* C2: whenever a call of empty() returns true, no datum is in the queue   *)
(* at that moment.                                                         *)
(***************************************************************************)
C2_EmptyMeansNoDatum == (r_ret = "True") => (r_retq = 0)

(***************************************************************************)
(* What the repair claims speak about: the blocks of the original file     *)
(* that the damage left byte for byte in place.                            *)
(***************************************************************************)
RECURSIVE IsSubseq(_, _)
\* a can be obtained from b by deleting elements.
IsSubseq(a, b) ==
    IF a = <<>> THEN TRUE
    ELSE IF b = <<>> THEN FALSE
    ELSE IF Head(a) = Head(b) THEN IsSubseq(Tail(a), Tail(b))
    ELSE IsSubseq(a, Tail(b))

RepairOriginalBlocks == NumberedBlocks(rp_shape, 0)

\* The offset at which block i of the original file starts (i - 1 blocks
\* precede it).
RepairBlockStart(i) ==
    Sum([j \in 1..(i - 1) |->
            Len(EncodeBlock(rp_in.codec, RepairOriginalBlocks[j], rp_in.sync))])

RepairBlockIntact(i) ==
    LET orig == RepairOriginal(rp_in.codec, rp_shape)
    IN  Slice(rp_in.body, RepairBlockStart(i), RepairBlockStart(i + 1))
          = Slice(orig.body, RepairBlockStart(i), RepairBlockStart(i + 1))

\* The records of the intact blocks, in input order.
RepairIntactRecords ==
    Flatten([i \in 1..Len(rp_shape) |->
                IF RepairBlockIntact(i) THEN RepairOriginalBlocks[i] ELSE <<>>])

(***************************************************************************)
(* C3: when repair has finished, every block that is still intact in the   *)
(* input has all of its records in the repaired output, in input order.    *)
(***************************************************************************)
C3_RepairRecoversIntactBlocks ==
    (rp_pc = "done") => IsSubseq(RepairIntactRecords, rp_out)

(***************************************************************************)
(* C4: the number of records of the repaired output is at most the record  *)
(* count of the original file and at least that count minus the records of *)
(* the corrupt blocks.                                                     *)
(***************************************************************************)
C4_RepairMonotonicity ==
    (rp_pc = "done") =>
        /\ Len(rp_out) <= Sum(rp_shape)
        /\ Len(rp_out) >= Len(RepairIntactRecords)

(***************************************************************************)
(* C5: the file block_concat writes decodes to the records of record-level *)
(* concat of the same inputs (input 1 in order, then input 2, ...), and    *)
(* every block of it ends with the sync marker of its header, which is the *)
(* first input's.                                                          *)
(***************************************************************************)
RECURSIVE WellFramedFrom(_, _)
\* From offset pos on, the body is a sequence of whole blocks each ending
\* with the file's sync marker.
WellFramedFrom(f, pos) ==
    IF pos = Len(f.body) THEN TRUE
    ELSE LET count == ReadVarint(f.body, pos)
             size  == ReadVarint(f.body, count.pos)
             stop  == size.pos + size.val
         IN  /\ count.ok
             /\ size.ok
             /\ size.val >= 0
             /\ Slice(f.body, stop, stop + SYNC_SIZE) = f.sync
             /\ WellFramedFrom(f, stop + SYNC_SIZE)

C5_BlockConcatEquivalence ==
    (bc_pc = "done") =>
        /\ DecodeFile(bc_out) = [ok |-> TRUE, recs |-> RecordConcat(bc_inputs)]
        /\ bc_out.sync = bc_inputs[1].sync
        /\ WellFramedFrom(bc_out, 0)

\* Two inputs with different sync markers, the second with several blocks,
\* have been concatenated.
C5_Witness ==
    /\ bc_pc = "done"
    /\ Len(bc_inputs) = 2
    /\ bc_inputs[1].sync # bc_inputs[2].sync
    /\ Len(DecodeFile(bc_inputs[1]).recs) >= 2
    /\ Len(DecodeFile(bc_inputs[2]).recs) >= 3
    /\ bc_out.codec = "deflate"

(***************************************************************************)
(* C6: for a file that is not truncated, fast_count_records returns the    *)
(* number of records a full decoding of the file yields.                   *)
(***************************************************************************)
C6_FastCountCorrect ==
    (fc_pc = "done" /\ fc_damage.kind = "none") =>
        /\ DecodeFile(fc_in).ok
        /\ fc_total = Len(DecodeFile(fc_in).recs)

\* A deflate file of three blocks and five records has been counted.
C6_Witness ==
    /\ fc_pc = "done"
    /\ fc_damage.kind = "none"
    /\ fc_in.codec = "deflate"
    /\ Len(fc_shape) = 3
    /\ fc_total = 5

C8_ExactlyNPartitions ==
    (pt_pc = "done" /\ RecordConcat(pt_inputs) # <<>>) =>
        (Cardinality(DOMAIN pt_dest) = pt_count)

(***************************************************************************)
(* C9: with reverse=False the output of filesort is non-decreasing in the  *)
(* sort key and holds exactly the records of the input, for every batch    *)
(* size and every order in which the spill files are listed.               *)
(***************************************************************************)
NonDecreasing(recs) ==
    \A i \in 1..(Len(recs) - 1) : ~TupleLess(SortKey(recs[i + 1]), SortKey(recs[i]))

NonIncreasing(recs) ==
    \A i \in 1..(Len(recs) - 1) : ~TupleLess(SortKey(recs[i]), SortKey(recs[i + 1]))

\* The records of a sequence as a multiset: record -> number of occurrences.
Multiset(recs) ==
    [r \in {recs[i] : i \in 1..Len(recs)} |->
        Cardinality({i \in 1..Len(recs) : recs[i] = r})]

C9_SortCorrect ==
    (fs_pc = "done" /\ ~fs_reverse) =>
        /\ NonDecreasing(fs_out)
        /\ Multiset(fs_out) = Multiset(fs_input)

\* An input that was not sorted has been sorted through several spill files.
C9_Witness ==
    /\ fs_pc = "done"
    /\ ~fs_reverse
    /\ Len(fs_spills) >= 2
    /\ Len(fs_input) = MaxRecords
    /\ ~NonDecreasing(fs_input)

(***************************************************************************)
(* C10: with reverse=True the output of filesort is non-increasing in the  *)
(* sort key, also when several spill files are merged.                     *)
(***************************************************************************)
C10_ReverseSort == (fs_pc = "done" /\ fs_reverse) => NonIncreasing(fs_out)

(***************************************************************************)
(* C11: when the destination expands to something and force is false,      *)
(* partition_avro fails without reading an input and without touching a    *)
(* file; when force is true the destination is deleted, the run goes on    *)
(* and the first partition opened is part-00000.                           *)
(***************************************************************************)
PreflightExisting == pt_pc = "start" /\ ExpandDest(pt_kind, pt_dest) # <<>>

\* The refusal alone: error, and neither files nor inputs are touched.
PreflightRefuses ==
    (PreflightExisting /\ ~pt_force) =>
        /\ pt_pc' = "error"
        /\ UNCHANGED <<pt_dest, pt_kind, pt_reader, pt_i, pt_opened, pt_current>>

\* The forced run: the destination is emptied and the writer then opens
\* part-00000.
PreflightForces ==
    /\ (PreflightExisting /\ pt_force) =>
            (pt_pc' = "open_writer" /\ pt_dest' = NoDest)
    /\ (pt_pc = "open_writer" /\ pt_force) =>
            (pt_pc' = "open_input" /\ pt_current' = ZeroPad(Digits(0), 5))

C11_PartitionPreflight == [][PreflightRefuses /\ PreflightForces]_vars

C11_RefusalOnly == [][PreflightRefuses]_vars

(***************************************************************************)
(* C12: a PartitionedAvroWriter never has more than one data-file stream   *)
(* open, also at the instant a roll opens the next output: the current     *)
(* output is closed first.                                                 *)
(***************************************************************************)
C12_AtMostOneStream ==
    /\ Cardinality(pw_streams) <= 1
    /\ pw_peak <= 1
    /\ (pw_current = None) => (pw_streams = {})

\* A writer that rolled twice and is still open.
C12_Witness ==
    /\ Cardinality(DOMAIN pw_dest) >= 3
    /\ pw_peak = 1
    /\ pw_streams = {pw_current}
    /\ pw_current # None
    /\ \E n \in DOMAIN pw_dest : n # pw_current /\ Len(pw_dest[n]) > 0 /\ pw_dest[n] # <<99>>

(***************************************************************************)
(* C13: next_filename(None) is part-00000.avro; next_filename of the name  *)
(* with index N is the name with index N + 1; and a previous name that     *)
(* holds no part-<digits> raises ValueError.                               *)
(***************************************************************************)
\* The name holds part- followed by a digit somewhere.
HoldsPartDigits(name) ==
    \E i \in 1..Len(name) :
        /\ i + 5 <= Len(name)
        /\ \A k \in 1..5 : name[i + k - 1] = PartPrefix[k]
        /\ name[i + 5] \in {"0", "1", "2", "3", "4", "5", "6", "7", "8", "9"}

\* The first two clauses: the start of the sequence and the successor.
NamingSuccessor ==
    (nf_pc = "returned") =>
        /\ nf_none => (nf_result = [raised |-> FALSE, name |-> FormatPart(0)])
        /\ (nf_index >= 0) =>
                (nf_result = [raised |-> FALSE, name |-> FormatPart(nf_index + 1)])

\* The third clause: a string without part-<digits> raises.
NamingMalformedRaises ==
    (nf_pc = "returned" /\ ~nf_none /\ ~HoldsPartDigits(nf_previous)) => nf_result.raised

\* The third clause on the strings that are not empty.
NamingMalformedNonEmpty ==
    (nf_pc = "returned" /\ nf_previous # <<>> /\ ~HoldsPartDigits(nf_previous)) =>
        nf_result.raised

C13_SequentialNaming == NamingSuccessor /\ NamingMalformedRaises

C13_ExceptEmptyString == NamingSuccessor /\ NamingMalformedNonEmpty

(***************************************************************************)
(* C14: validate_avro_schema_evolution(A, B) raises the ValueError         *)
(* "Field <path> is missing a default value" for every flattened path that *)
(* is in B and not in A, or in A and not in B, and whose field has no      *)
(* default; it raises no such error for a path whose field has one.        *)
(***************************************************************************)
EvolutionFlatA == flatten_avro_schema_fields(se_a, <<>>)

EvolutionFlatB == flatten_avro_schema_fields(se_b, <<>>)

EvolutionPaths ==
    {EvolutionFlatA[k].path : k \in 1..Len(EvolutionFlatA)}
    \cup {EvolutionFlatB[k].path : k \in 1..Len(EvolutionFlatB)}

\* The path was added or removed.
OnlyInOne(path) == HasPath(EvolutionFlatA, path) # HasPath(EvolutionFlatB, path)

\* The field of an added or removed path, in the schema that has it.
FieldOfOnly(path) ==
    IF HasPath(EvolutionFlatB, path) THEN FieldAt(EvolutionFlatB, path)
    ELSE FieldAt(EvolutionFlatA, path)

\* Added or removed without a default.
LacksDefault(path) == OnlyInOne(path) /\ ~FieldOfOnly(path).has_default

\* Read for all such paths at once, the error would have to name each of
\* them; the one ValueError of a call names the first path that fails.
C14_EveryPathNamed ==
    (se_pc = "returned") =>
        \A path \in EvolutionPaths :
            /\ LacksDefault(path) => (se_result = Raise("missing a default value", path))
            /\ (OnlyInOne(path) /\ FieldOfOnly(path).has_default) =>
                    (se_result # Raise("missing a default value", path))

IsPrimitiveNull(s) == s.kind = "primitive" /\ s.name = "null"

\* The field at path was made optional between A and B.
MadeOptional(path) ==
    /\ HasPath(EvolutionFlatA, path)
    /\ HasPath(EvolutionFlatB, path)
    /\ LET old_field == FieldAt(EvolutionFlatA, path)
           field     == FieldAt(EvolutionFlatB, path)
       IN  /\ old_field.type.kind # "union"
           /\ field.type.kind = "union"
           /\ Len(field.type.schemas) = 2
           /\ \E k \in 1..2 : IsPrimitiveNull(field.type.schemas[k])
           /\ ~(old_field.has_default /\ ~field.has_default)

C15_MakingOptionalAccepted ==
    (se_pc = "returned") =>
        \A path \in EvolutionPaths :
            MadeOptional(path) => ~(se_result.raised /\ se_result.path = path)

(***************************************************************************)
(* C16: flatten_urls returns every distinct URL string of the flattened    *)
(* (and, with expand, expanded) input exactly once, the strings in the     *)
(* order of their first occurrence there, and no None.                     *)
(***************************************************************************)
RECURSIVE FlattenedInput(_, _)
\* The URLs of the entries from the k-th on, None dropped, each expanded
\* when expand is set.
FlattenedInput(k, expand) ==
    IF k > Len(fu_urls.items) THEN <<>>
    ELSE (IF fu_urls.items[k] = "None" THEN <<>>
          ELSE IF expand THEN ExpandUrl(fu_urls.items[k])
          ELSE <<fu_urls.items[k]>>)
         \o FlattenedInput(k + 1, expand)

\* The position of the first occurrence of a string.
FirstAt(seq, x) == CHOOSE k \in 1..Len(seq) : seq[k] = x /\ \A j \in 1..(k - 1) : seq[j] # x

C16_FlattenDedupOrder ==
    (fu_pc = "returned") =>
        LET input == FlattenedInput(1, fu_expand)
        IN  /\ {fu_result[k] : k \in 1..Len(fu_result)} = {input[k] : k \in 1..Len(input)}
            /\ \A i, j \in 1..Len(fu_result) : (i # j) => (fu_result[i] # fu_result[j])
            /\ \A i, j \in 1..Len(fu_result) :
                    (i < j) => (FirstAt(input, fu_result[i]) < FirstAt(input, fu_result[j]))
            /\ \A k \in 1..Len(fu_result) : fu_result[k] # "None"

\* A list with a None, where expansion produces a string a second time
\* after another string came in between.
C16_Witness ==
    /\ fu_pc = "returned"
    /\ fu_expand
    /\ \E k \in 1..Len(fu_urls.items) : fu_urls.items[k] = "None"
    /\ LET input == FlattenedInput(1, TRUE)
       IN  /\ Len(fu_result) >= 2
           /\ \E i, j \in 1..Len(input) : i + 1 < j /\ input[i] = input[j] /\ input[i + 1] # input[i]

(***************************************************************************)
(* C17: expand() returns its URLs sorted by the full URL string, for a     *)
(* directory with any nesting of subdirectories and for a glob pattern.    *)
(***************************************************************************)
SortedByPath(paths) ==
    \A i, j \in 1..Len(paths) : (i < j) => ~LexLess(paths[j], paths[i])

C17_ExpandSorted == (ex_pc = "returned") => SortedByPath(ex_result)

\* The same for patterns and for directories without subdirectories.
C17_SortedWithoutNesting ==
    (ex_pc = "returned" /\ (ex_kind = "directory" => DOMAIN ex_tree.dirs = {})) =>
        SortedByPath(ex_result)

(***************************************************************************)
(* C18: for S3 and for GCS, a URL opened in append mode on an existing     *)
(* object leaves, after the bytes B were written and close() was called,   *)
(* the object's previous content followed by B.                            *)
(***************************************************************************)
AppendPreserves(backend) ==
    (/\ os_pc = "closed"
     /\ ~os_raised
     /\ os_backend = backend
     /\ os_mode = "ab"
     /\ os_before.exists) =>
        (os_remote = [exists |-> TRUE, data |-> os_before.data \o os_written])

C18_AppendPreservesContent == AppendPreserves("s3") /\ AppendPreserves("gcs")

\* The GCS backend alone.
C18_GcsAppendPreserves == AppendPreserves("gcs")

(***************************************************************************)
(* C19: when the wrapped writer's append() raises for a datum, the worker  *)
(* does not exit: once stop() has returned, every datum enqueued after     *)
(* the failing one has been dequeued and passed to the wrapped writer.     *)
(***************************************************************************)
FailingIndexes == {i \in 1..Len(w_enq) : w_enq[i] \in BadData}

\* The data enqueued from position i on.
EnqueuedFrom(i) == SubSeq(w_enq, i, Len(w_enq))

\* s is the end of t.
IsSuffix(s, t) ==
    /\ Len(s) <= Len(t)
    /\ s = SubSeq(t, Len(t) - Len(s) + 1, Len(t))

C19_WorkerSurvivesFailure ==
    (w_main = "stopped") =>
        /\ w_queue = <<>>
        /\ \A i \in FailingIndexes : IsSuffix(EnqueuedFrom(i), w_passed)

\* The same for the data that are not falsy.
C19_TruthySurvive ==
    (w_main = "stopped") =>
        /\ w_queue = <<>>
        /\ \A i \in FailingIndexes :
              IsSuffix(SelectSeq(EnqueuedFrom(i), Truthy), w_passed)

(***************************************************************************)
(* C20: with dry_run the output URL of the caller is never created,        *)
(* written or deleted; the repaired data goes to a temporary file that no  *)
(* longer exists when repair returns; the report carries "(dry run)" as    *)
(* its output URL, and its block counts are those of the call without      *)
(* dry_run on the same input.                                              *)
(***************************************************************************)
DryRunLeavesUser == [][rp_dry_run => (rp_user' = rp_user /\ rp_touched' = {})]_vars

DryRunUsesTemporary ==
    /\ (rp_dry_run /\ rp_pc = "closed") => (rp_tmp = [exists |-> TRUE, recs |-> rp_out])
    /\ (rp_dry_run /\ rp_pc = "done") => ~rp_tmp.exists

DryRunReport ==
    /\ (rp_pc = "done") => (rp_url = "(dry run)" <=> rp_dry_run)
    /\ (rp_pc = "done" /\ rp_first # <<>>) => (rp_report = rp_first.report)

C20_DryRunLeavesOutput == DryRunLeavesUser /\ [](DryRunUsesTemporary /\ DryRunReport)

\* A dry run has returned after a call without dry_run, on a damaged file,
\* with the caller's file still what that call left.
C20_Witness ==
    /\ rp_pc = "done"
    /\ rp_dry_run
    /\ rp_first # <<>>
    /\ rp_damage.kind # "none"
    /\ rp_report[1] > 0
    /\ rp_user.exists

(***************************************************************************)
(* C21: scan_to_next_sync_marker returns True exactly when the marker      *)
(* occurs at or after the start position, and then leaves the stream right *)
(* after the first such occurrence, whatever the chunk size.               *)
(***************************************************************************)
\* The offsets at or after the start at which the marker occurs.
MarkerOffsets ==
    {i \in sc_start..(Len(sc_bytes) - Len(sc_marker)) :
        SubSeq(sc_bytes, i + 1, i + Len(sc_marker)) = sc_marker}

FirstMarkerOffset == CHOOSE i \in MarkerOffsets : \A j \in MarkerOffsets : i <= j

C21_ScanFindsFirstMarker ==
    (sc_pc = "done") =>
        IF MarkerOffsets = {}
        THEN ~sc_result.found
        ELSE /\ sc_result.found
             /\ sc_result.pos = FirstMarkerOffset + Len(sc_marker)

\* The first occurrence lies across the end of a chunk, after at least one
\* whole chunk without it.
C21_Witness ==
    /\ sc_pc = "done"
    /\ MarkerOffsets # {}
    /\ sc_result.found
    /\ FirstMarkerOffset - sc_start >= sc_chunk
    /\ (FirstMarkerOffset - sc_start) \div sc_chunk
         # (FirstMarkerOffset + Len(sc_marker) - 1 - sc_start) \div sc_chunk

(***************************************************************************)
(* C22: when the 16 bytes after a block's payload are not the sync marker  *)
(* (the file is truncated inside a block), fast_count_records stops        *)
(* without raising and returns the sum of the record counts of the blocks  *)
(* whose trailing sync marker matched.                                     *)
(***************************************************************************)
\* The offset at which block i of the file as written ends.
CountBlockEnd(i) ==
    Len(MakeFile(fc_in.codec, 6, NumberedBlocks(SubSeq(fc_shape, 1, i), 0)).body)

\* The blocks that are whole in the file as it is read.
CountWholeBlocks == {i \in 1..Len(fc_shape) : CountBlockEnd(i) <= Len(fc_in.body)}

\* The count and the size of the first block that is not whole can be read,
\* so the loop ends at that block's sync check.
CountEndsAtMismatch ==
    /\ fc_damage.kind = "truncate"
    /\ LET start == CountBlockEnd(Cardinality(CountWholeBlocks))
           count == ReadVarint(fc_in.body, start)
       IN  count.ok /\ ReadVarint(fc_in.body, count.pos).ok

C22_CountUpToLastValidSync ==
    CountEndsAtMismatch =>
        /\ fc_pc # "error"
        /\ (fc_pc = "done") =>
              (fc_total = Sum(SubSeq(fc_shape, 1, Cardinality(CountWholeBlocks))))

\* The loop stops without raising, with the block that failed the check
\* counted.
C22_StopsCountingFailedBlock ==
    CountEndsAtMismatch =>
        /\ fc_pc # "error"
        /\ (fc_pc = "done") =>
              (fc_total = Sum(SubSeq(fc_shape, 1, Cardinality(CountWholeBlocks) + 1)))

(***************************************************************************)
(* C23: among records with equal sort keys, the merged output of filesort  *)
(* has the records of a spill file with a lower batch index before those   *)
(* of a spill file with a higher one, whatever the order in which the      *)
(* temporary directory lists the spill files.                              *)
(***************************************************************************)
\* The batch_id of the spill file a record was written to.
BatchOf(rec) == (rec.id - 1) \div fs_batch_size

TiesInBatchOrder ==
    \A p, q \in 1..Len(fs_out) :
        (p < q /\ SortKey(fs_out[p]) = SortKey(fs_out[q])) =>
            BatchOf(fs_out[p]) <= BatchOf(fs_out[q])

C23_TieBreakOnSpillIndex == (fs_pc = "done" /\ ~fs_reverse) => TiesInBatchOrder

\* The same when the directory lists the spill files by batch index.
C23_TieBreakWhenListedInOrder ==
    (fs_pc = "done" /\ ~fs_reverse /\ \A i \in 1..Len(fs_order) : fs_order[i] = i - 1)
        => TiesInBatchOrder

(***************************************************************************)
(* C24: in block_concat an input block whose trailing 16 bytes are not     *)
(* that input's sync marker is reported to the caller as an error and is   *)
(* not copied into the output as a valid block.                            *)
(***************************************************************************)
\* At offset pos the input has a block with its count, size, payload and
\* 16 trailing bytes present.
WholeBlockAt(f, pos) ==
    LET count == ReadVarint(f.body, pos)
        size  == ReadVarint(f.body, count.pos)
    IN  /\ count.ok
        /\ size.ok
        /\ size.val >= 0
        /\ size.pos + size.val + SYNC_SIZE <= Len(f.body)

\* The 16 bytes that trail the block at offset pos.
TrailingSync(f, pos) ==
    LET size == ReadVarint(f.body, ReadVarint(f.body, pos).pos)
    IN  Slice(f.body, size.pos + size.val, size.pos + size.val + SYNC_SIZE)

\* block_concat is about to read a block whose trailing bytes are not the
\* input's marker.
AtSyncMismatch ==
    /\ bc_pc = "blocks"
    /\ bc_pos < Len(bc_inputs[bc_i].body)
    /\ WholeBlockAt(bc_inputs[bc_i], bc_pos)
    /\ TrailingSync(bc_inputs[bc_i], bc_pos) # bc_inputs[bc_i].sync

C24_SyncMismatchSurfaces ==
    [][AtSyncMismatch => (bc_pc' = "error" /\ bc_out' = bc_out)]_vars

\* A block that cannot be read whole (its size is negative or runs past the
\* end of the input) is reported and nothing of it is written.
C24_ShortBlockSurfaces ==
    [][(/\ bc_pc = "blocks"
        /\ bc_pos < Len(bc_inputs[bc_i].body)
        /\ ~WholeBlockAt(bc_inputs[bc_i], bc_pos))
          => (bc_pc' = "error" /\ bc_out' = bc_out)]_vars

(***************************************************************************)
(* C25: for an S3 or GCS URL opened in write or append mode, after close() *)
(* has returned or raised the scratch file no longer exists on the local   *)
(* disk, whether or not the upload succeeded, and an upload that succeeded *)
(* happened while the file was still there.                                *)
(***************************************************************************)
C25_ScratchFileRemoved ==
    (os_pc = "closed" /\ os_mode \in {"wb", "ab"}) => ~os_local

\* The upload is made from the scratch file while it exists: after a close()
\* that did not raise, the object holds the content of the scratch file.
C25_UploadedBeforeCleanup ==
    (os_pc = "closed" /\ os_mode \in {"wb", "ab"} /\ ~os_raised) =>
        (os_remote = [exists |-> TRUE, data |-> os_scratch])

(***************************************************************************)
(* C26: on an initially empty destination the writer creates               *)
(* part-00000.avro, part-00001.avro, ... in that order, one per open or    *)
(* roll, and expand() lists them in that order; on a destination that      *)
(* already holds partitions it creates the successor of the                *)
(* lexicographically last name and leaves the existing files unchanged.    *)
(***************************************************************************)
PartName(i) == ZeroPad(Digits(i), 5)

\* The destination held nothing but partitions when the writer was made.
HeldPartitions == \A n \in DOMAIN pw_initial : HasPartIndex(n)

ConsecutiveFromEmpty ==
    (pw_initial = NoDest) =>
        /\ pw_created = [i \in 1..Len(pw_created) |-> PartName(i - 1)]
        /\ Expand(pw_dest) = pw_created

ExistingUnchanged ==
    (pw_initial # NoDest /\ HeldPartitions) =>
        \A n \in DOMAIN pw_initial : n \in DOMAIN pw_dest /\ pw_dest[n] = pw_initial[n]

SuccessorOfLast ==
    [][(Len(pw_created') > Len(pw_created)) =>
          (pw_created'[Len(pw_created')] = NextFilename(FindLastFilename(pw_dest)))]_vars

C26_ConsecutiveNames == [](ConsecutiveFromEmpty /\ ExistingUnchanged) /\ SuccessorOfLast

\* The same for the destinations whose names stay below the last five-digit
\* index.
C26_BelowLastFiveDigitIndex ==
    [](ConsecutiveFromEmpty
        /\ ((\A n \in DOMAIN pw_dest : ParseInt(n) < LastFiveDigitIndex) => ExistingUnchanged))
    /\ SuccessorOfLast

(***************************************************************************)
(* C27: the file a roll (or an open) of a PartitionedAvroWriter opens does *)
(* not already exist in the destination, also past index 99999: no         *)
(* partition written before is overwritten.                                *)
(***************************************************************************)
C27_RollNeverReuses ==
    [][(Len(pw_created') > Len(pw_created)) =>
          (pw_created'[Len(pw_created')] \notin DOMAIN pw_dest)]_vars

\* The same while every name of the destination is below the last
\* five-digit index.
C27_NoReuseBelowLastFiveDigitIndex ==
    [][(/\ Len(pw_created') > Len(pw_created)
        /\ \A n \in DOMAIN pw_dest : HasPartIndex(n) /\ ParseInt(n) < LastFiveDigitIndex) =>
          (pw_created'[Len(pw_created')] \notin DOMAIN pw_dest)]_vars

(***************************************************************************)
(* C28: in every report repair returns, count_corrupt_blocks is at most    *)
(* count_blocks, also for blocks whose declared size is negative or runs   *)
(* past the end of the file.                                               *)
(***************************************************************************)
C28_CorruptAtMostBlocks == (rp_pc = "done") => (rp_report[2] <= rp_report[1])

\* The same for the files none of whose blocks is read with a size below -1.
C28_ExceptNegativeSize ==
    (rp_pc = "done" /\ rp_corrupt > rp_blocks) =>
        /\ rp_damage.kind = "byte"
        /\ UnZigZag(rp_damage.val) < -1

(***************************************************************************)
(* C29: for any bytes after a valid null-codec header the block loop of    *)
(* repair ends: every iteration consumes at least one input byte or leaves *)
(* the loop, and a report is returned.                                     *)
(***************************************************************************)
IterationConsumesOrExits ==
    [][(rp_pc = "loop") =>
          \/ rp_pc' # "loop"
          \/ rp_pos < rp_pos' /\ rp_pos' <= Len(rp_in.body)]_vars

ReportReturned == <>(rp_pc = "done" /\ rp_report # <<>>)

C29_RepairTerminates == IterationConsumesOrExits /\ ReportReturned

\* repair has returned after an iteration that appended the record of a
\* whole block, one that scanned forward, and the one that met the end.
C29_Witness ==
    /\ rp_pc = "done"
    /\ rp_report[1] >= 2
    /\ rp_report[2] >= 1
    /\ rp_out # <<>>
    /\ rp_pos = Len(rp_in.body)

(***************************************************************************)
(* C30: while stop() has not been called the reader's worker enqueues      *)
(* every datum the source yields exactly once and in source order, the     *)
(* done event is set only after the last of them is enqueued, also when    *)
(* the source then raises, and done is eventually set.                     *)
(***************************************************************************)
\* Everything put on the queue so far: what the consumer took, then what is
\* still queued.
Enqueued == r_got \o r_queue

StopCalled == r_cons \in {"joining", "stopped"}

EnqueuedInSourceOrder == Enqueued = SubSeq(r_data.items, 1, r_idx)

DoneAfterLastDatum == (r_done /\ ~StopCalled) => (Enqueued = r_data.items)

DoneEventuallySet == (r_worker = "for") ~> r_done

C30_InOrderThenDone ==
    /\ [](EnqueuedInSourceOrder /\ DoneAfterLastDatum)
    /\ DoneEventuallySet

\* A source that raised after three data: the worker has set done, stop()
\* was not called, the consumer holds one datum and two are still queued.
C30_Witness ==
    /\ r_data.raises
    /\ Len(r_data.items) = 3
    /\ r_done
    /\ ~StopCalled
    /\ Len(r_got) = 1
    /\ Len(r_queue) = 2

=============================================================================
